---- MODULE Spec2Model ----
(***************************************************************************)
(* Vector store abstraction layer of llm-kit: the upsert / query / delete  *)
(* contract and its three adapters (PgVectorStore, QdrantVectorStore,      *)
(* SQLiteVectorStore), each together with the part of its backing engine   *)
(* that the adapter's statements rely on.                                  *)
(*                                                                         *)
(* Scores and distances are fixed-point numbers: the value One stands for  *)
(* 1.0.  Vectors are non-zero and have integral norms, so that the cosine  *)
(* of two of them is computed exactly.                                     *)
(***************************************************************************)
EXTENDS Integers, Sequences, FiniteSets, TLC

VARIABLES
    adapter,    \* which VectorStore implementation this store instance is
    pg_rows,    \* PgVectorStore: rows of table vector_items
    qd_exists,  \* QdrantVectorStore: whether the collection exists
    qd_points,  \* QdrantVectorStore: points of the collection
    sq_conn,    \* SQLiteVectorStore: self._conn is open and the schema exists
    sq_rows,    \* SQLiteVectorStore: rows of virtual table vec_items
    call,       \* the last public operation called, with its arguments
    ret,        \* what that call returned or raised
    io,         \* the calls that operation made to the backing engine, in order
    before,     \* history: the stored rows or points when that call was made
    log,        \* history: per (namespace, id), the last upsert or delete by ids
    ncalls,     \* number of public operations called so far
    environ,    \* the process environment: the pool-size variables
    pool,       \* PgVectorStore: the connection pool made by __init__
    sq_db,      \* SQLiteVectorStore: db_path, and history of the last close()
    flight      \* the operations in flight, one per concurrent caller

vars == <<adapter, pg_rows, qd_exists, qd_points, sq_conn, sq_rows,
          call, ret, io, before, log, ncalls, environ, pool, sq_db, flight>>

\* what the operations called one after another on an open store leave alone
aux == <<environ, pool, sq_db, flight>>

---------------------------------------------------------------------------
(* Bounds and input domains *)

MaxCalls == 3

Adapters == {"pg", "qdrant", "sqlite"}
Namespaces == {"A", "B"}
Ids == {"x", "y"}
Vectors == {<<1, 0>>, <<0, 1>>}
TopKs == 0..2

\* JSON scalars keep their type: the string "1" and the number 1 differ.
Txt(s) == [t |-> "str", s |-> s]
Num(s) == [t |-> "num", s |-> s]
Values == {Txt("1"), Num("1"), Txt("B")}

EmptyMap == [k \in {} |-> Txt("")]
Metadatas == {EmptyMap, "type" :> Txt("1"), "_namespace" :> Txt("B")}

\* VectorItem(id, vector, metadata)
VectorItem == [id : Ids, vector : Vectors, metadata : Metadatas]
Batches == {<<>>}
           \cup {<<i>> : i \in VectorItem}
           \cup {<<[id |-> "x", vector |-> <<1, 0>>, metadata |-> "type" :> Txt("1")], j>> :
                    j \in {i \in VectorItem : i.metadata = EmptyMap}}

\* filters: dict | None
NoFilters == [given |-> FALSE, map |-> EmptyMap]
FilterArgs == {NoFilters}
              \cup {[given |-> TRUE, map |-> m] :
                       m \in {"type" :> Txt("1"), "type" :> Num("1")}}

\* ids: Iterable[str] | None.  A "gen" is an iterable that can be consumed
\* only once (a generator); a "list" can be iterated again.
NoIds == [kind |-> "none", seq |-> <<>>]
IdArgs == {NoIds,
           [kind |-> "list", seq |-> <<>>],
           [kind |-> "list", seq |-> <<"x">>],
           [kind |-> "list", seq |-> <<"x", "y">>],
           [kind |-> "gen", seq |-> <<"x">>]}

---------------------------------------------------------------------------
(* Python values *)

\* bool(filters): None and the empty dict are falsy
FiltersTruthy(filters) == filters.given /\ DOMAIN filters.map # {}

\* bool(ids): None and an empty list are falsy; a generator object is truthy
IdsTruthy(ids) == ids.kind = "gen" \/ (ids.kind = "list" /\ ids.seq # <<>>)

\* list(ids), the nth time the iterable is consumed
ListIds(ids, nth) == IF ids.kind = "gen" /\ nth > 1 THEN <<>> ELSE ids.seq

Range(s) == {s[i] : i \in DOMAIN s}

\* str(value)
PyStr(v) == v.s

\* metadata.get(k) == v
PyGetEquals(metadata, k, v) == k \in DOMAIN metadata /\ metadata[k] = v

Min(a, b) == IF a < b THEN a ELSE b

---------------------------------------------------------------------------
(* Cosine metric, shared by the three engines *)

One == 1000

Dot(a, b) == a[1] * b[1] + a[2] * b[2]
Norm(a) == CHOOSE n \in 0..10 : n * n = Dot(a, a)
CosineSimilarity(a, b) == (One * Dot(a, b)) \div (Norm(a) * Norm(b))
CosineDistance(a, b) == One - CosineSimilarity(a, b)

\* All orders in which an engine may return the candidate rows cand when it
\* sorts them by ascending key (a function on cand): rows with equal keys
\* come in any order.
Rankings(cand, key) ==
    {f \in [1..Cardinality(cand) -> cand] :
        /\ \A i, j \in DOMAIN f : i # j => f[i] # f[j]
        /\ \A i, j \in DOMAIN f : i < j => key[f[i]] <= key[f[j]]}

\* ... LIMIT k
Limit(seq, k) == SubSeq(seq, 1, Min(k, Len(seq)))

---------------------------------------------------------------------------
(* Calls and results *)

Call(op, ns, items, vector, top_k, ids, filters) ==
    [op |-> op, namespace |-> ns, items |-> items, vector |-> vector,
     top_k |-> top_k, ids |-> ids, filters |-> filters]

UpsertCall(ns, items) == Call("upsert", ns, items, <<>>, 0, NoIds, NoFilters)
QueryCall(ns, vector, top_k, filters) == Call("query", ns, <<>>, vector, top_k, NoIds, filters)
DeleteCall(ns, ids, filters) == Call("delete", ns, <<>>, <<>>, 0, ids, filters)
GetByIdsCall(ns, ids) == Call("get_by_ids", ns, <<>>, <<>>, 0, ids, NoFilters)
CountCall(ns) == Call("count", ns, <<>>, <<>>, 0, NoIds, NoFilters)

\* status: "ok", "ValueError" or "EngineError"; hits: the QueryResult list of a
\* query, or the VectorItem list of get_by_ids; count: the integer returned by
\* delete or by count.
Ret(status, hits, count) == [status |-> status, hits |-> hits, count |-> count]
Returned == Ret("ok", <<>>, 0)
ValueError == Ret("ValueError", <<>>, 0)
EngineError == Ret("EngineError", <<>>, 0)

\* QueryResult(id, score, metadata); wns is a history field, the namespace
\* argument of the upsert that wrote the stored item the result comes from.
QueryResult(id, score, metadata, wns) ==
    [id |-> id, score |-> score, metadata |-> metadata, wns |-> wns]

\* History kept per (namespace, id): the metadata passed by the last
\* successful upsert of the key ("upsert"), that an upsert of the key raised
\* ("failed"), or that the key was since named by a successful delete by ids
\* alone ("delete").
Keys == Namespaces \X Ids
NoRecord == [op |-> "none", metadata |-> EmptyMap]

\* the position in a batch of the last item with the id
LastWith(items, id) ==
    CHOOSE n \in DOMAIN items :
        /\ items[n].id = id
        /\ \A m \in DOMAIN items : m > n => items[m].id # id

LogUpsert(old, ns, items, ok) ==
    [key \in Keys |->
        IF key[1] = ns /\ \E n \in DOMAIN items : items[n].id = key[2]
          THEN IF ok
                 THEN [op |-> "upsert",
                       metadata |-> items[LastWith(items, key[2])].metadata]
                 ELSE [op |-> "failed", metadata |-> EmptyMap]
          ELSE old[key]]

LogDelete(old, ns, ids, filters) ==
    [key \in Keys |->
        IF /\ ids.kind = "list" /\ ~FiltersTruthy(filters)
           /\ key[1] = ns /\ key[2] \in Range(ids.seq)
          THEN [op |-> "delete", metadata |-> EmptyMap]
          ELSE old[key]]

---------------------------------------------------------------------------
(* PgVectorStore *)

\* metadata ->> key (text of a JSONB value; NULL when the key is missing)
\* compared with str(value)
PgFilterMatch(row, filters) ==
    \A k \in DOMAIN filters.map :
        k \in DOMAIN row.metadata /\ row.metadata[k].s = PyStr(filters.map[k])

\* PgInsertOnConflict with a DO UPDATE that merges the new metadata into the
\* stored document (metadata = vector_items.metadata || EXCLUDED.metadata)
PgInsertOnConflictMerge(rows, ns, item) ==
    LET old == {r \in rows : r.namespace = ns /\ r.id = item.id}
        merged == IF old = {} THEN item.metadata
                  ELSE LET o == (CHOOSE r \in old : TRUE).metadata
                       IN [k \in DOMAIN o \cup DOMAIN item.metadata |->
                              IF k \in DOMAIN item.metadata THEN item.metadata[k] ELSE o[k]]
    IN (rows \ old)
       \cup {[namespace |-> ns, id |-> item.id, embedding |-> item.vector,
              metadata |-> merged]}

\* INSERT ... ON CONFLICT (namespace, id) DO UPDATE SET embedding, metadata
PgInsertOnConflict(rows, ns, item) ==
    {r \in rows : ~(r.namespace = ns /\ r.id = item.id)}
    \cup {[namespace |-> ns, id |-> item.id, embedding |-> item.vector,
           metadata |-> item.metadata]}

RECURSIVE PgExecuteMany(_, _, _)
PgExecuteMany(rows, ns, items) ==
    IF items = <<>> THEN rows
    ELSE PgExecuteMany(PgInsertOnConflict(rows, ns, Head(items)), ns, Tail(items))

PgWhere(rows, ns, filters) ==
    {r \in rows : r.namespace = ns
                  /\ (FiltersTruthy(filters) => PgFilterMatch(r, filters))}

\* 1 - (embedding <=> q) AS score
PgScore(distance) == One - distance

\* PgSelect without its LIMIT clause
PgSelectNoLimit(rows, ns, vector, top_k, filters) ==
    LET dist(r) == CosineDistance(r.embedding, vector)
    IN {[i \in DOMAIN s |->
            QueryResult(s[i].id, PgScore(dist(s[i])), s[i].metadata, s[i].namespace)] :
          s \in Rankings(PgWhere(rows, ns, filters),
                          [r \in PgWhere(rows, ns, filters) |-> dist(r)])}

\* SELECT id, 1 - (embedding <=> q) AS score, metadata ... ORDER BY ... LIMIT
PgSelect(rows, ns, vector, top_k, filters) ==
    LET dist(r) == CosineDistance(r.embedding, vector)
    IN {[i \in DOMAIN s |->
            QueryResult(s[i].id, PgScore(dist(s[i])), s[i].metadata, s[i].namespace)] :
          s \in {Limit(f, top_k) :
                   f \in Rankings(PgWhere(rows, ns, filters),
                                  [r \in PgWhere(rows, ns, filters) |-> dist(r)])}}

PgDeleteWhere(rows, ns, ids, filters) ==
    {r \in rows : /\ r.namespace = ns
                  /\ (IdsTruthy(ids) => r.id \in Range(ListIds(ids, 1)))
                  /\ (FiltersTruthy(filters) => PgFilterMatch(r, filters))}

PgUpsert(ns, items) ==
    /\ adapter = "pg"
    /\ ncalls < MaxCalls
    /\ before' = pg_rows
    /\ pg_rows' = IF items = <<>> THEN pg_rows ELSE PgExecuteMany(pg_rows, ns, items)
    /\ io' = IF items = <<>> THEN <<>> ELSE <<"pool.connection", "executemany">>
    /\ call' = UpsertCall(ns, items)
    /\ ret' = Returned
    /\ ncalls' = ncalls + 1
    /\ UNCHANGED <<adapter, qd_exists, qd_points, sq_conn, sq_rows>>

PgQuery(ns, vector, top_k, filters) ==
    /\ adapter = "pg"
    /\ ncalls < MaxCalls
    /\ before' = pg_rows
    /\ call' = QueryCall(ns, vector, top_k, filters)
    /\ IF top_k < 1
         THEN /\ ret' = ValueError
              /\ io' = <<>>
         ELSE /\ \E hits \in PgSelect(pg_rows, ns, vector, top_k, filters) :
                    ret' = Ret("ok", hits, 0)
              /\ io' = <<"pool.connection", "execute">>
    /\ ncalls' = ncalls + 1
    /\ UNCHANGED <<adapter, pg_rows, qd_exists, qd_points, sq_conn, sq_rows>>

PgDelete(ns, ids, filters) ==
    /\ adapter = "pg"
    /\ ncalls < MaxCalls
    /\ before' = pg_rows
    /\ call' = DeleteCall(ns, ids, filters)
    /\ IF ~IdsTruthy(ids) /\ ~FiltersTruthy(filters)
         THEN /\ ret' = ValueError
              /\ pg_rows' = pg_rows
              /\ io' = <<>>
         ELSE LET gone == PgDeleteWhere(pg_rows, ns, ids, filters)
              IN /\ pg_rows' = pg_rows \ gone
                 /\ ret' = Ret("ok", <<>>, Cardinality(gone))   \* cur.rowcount
                 /\ io' = <<"pool.connection", "execute">>
    /\ ncalls' = ncalls + 1
    /\ UNCHANGED <<adapter, qd_exists, qd_points, sq_conn, sq_rows>>

---------------------------------------------------------------------------
(* QdrantVectorStore *)

\* payload={"_namespace": namespace, **dict(item.metadata)}: a later key wins
QdrantPayload(ns, metadata) ==
    [k \in {"_namespace"} \cup DOMAIN metadata |->
        IF k \in DOMAIN metadata THEN metadata[k] ELSE Txt(ns)]

\* PointStruct(id, vector, payload); wns is a history field, the namespace
\* argument of the upsert call that wrote the point.
PointStruct(ns, item) ==
    [id |-> item.id, vector |-> item.vector,
     payload |-> QdrantPayload(ns, item.metadata), wns |-> ns]

\* client.upsert: a point replaces the stored point with the same id
RECURSIVE QdrantClientUpsert(_, _, _)
QdrantClientUpsert(points, ns, items) ==
    IF items = <<>> THEN points
    ELSE QdrantClientUpsert(
             {q \in points : q.id # Head(items).id} \cup {PointStruct(ns, Head(items))},
             ns, Tail(items))

\* FieldCondition(key=key, match=MatchValue(value=value))
QdrantFieldCondition(point, key, value) ==
    key \in DOMAIN point.payload /\ point.payload[key] = value

\* Filter(must=[the namespace condition, one condition per filter key])
QdrantMust(point, ns, filters) ==
    /\ QdrantFieldCondition(point, "_namespace", Txt(ns))
    /\ FiltersTruthy(filters) =>
          \A k \in DOMAIN filters.map : QdrantFieldCondition(point, k, filters.map[k])

\* StripNamespace with the payload returned as it is stored
StripNothing(payload) == payload

\* {k: v for k, v in payload.items() if k != "_namespace"}
StripNamespace(payload) == [k \in DOMAIN payload \ {"_namespace"} |-> payload[k]]

\* score=hit.score: the service's similarity is passed on as it is
QdrantScore(similarity) == similarity

\* client.query_points(query, query_filter, limit): best score first
QdrantQueryPoints(points, ns, vector, top_k, filters) ==
    LET score(p) == CosineSimilarity(p.vector, vector)
        cand == {p \in points : QdrantMust(p, ns, filters)}
    IN {[i \in DOMAIN s |->
            QueryResult(s[i].id, QdrantScore(score(s[i])),
                        StripNamespace(s[i].payload), s[i].wns)] :
          s \in {Limit(f, top_k) :
                   f \in Rankings(cand, [p \in cand |-> 0 - score(p)])}}

\* _count_matching: client.retrieve(ids) and a namespace check when ids are
\* given (the filters are then not looked at), client.count(filter) otherwise
QdrantCountAnyNamespace(points, ns, ids, filters) ==
    Cardinality({p \in points : p.id \in Range(ListIds(ids, 1))})
QdrantCountMatching(points, ns, ids, filters) ==
    IF IdsTruthy(ids)
      THEN Cardinality({p \in points :
                          /\ p.id \in Range(ListIds(ids, 1))
                          /\ QdrantFieldCondition(p, "_namespace", Txt(ns))})
      ELSE Cardinality({p \in points : QdrantMust(p, ns, filters)})

\* the points selected by FilterSelector(Filter(must=...)) of delete; ids has
\* been consumed once by _count_matching when it was truthy
QdrantDeleteSelector(points, ns, ids, filters) ==
    {p \in points : /\ QdrantMust(p, ns, filters)
                    /\ (IdsTruthy(ids) => p.id \in Range(ListIds(ids, 2)))}

\* the engine calls of _ensure_collection
QdrantEnsureCollectionAlways(exists) == <<"collection_exists", "create_collection">>
QdrantEnsureCollection(exists) ==
    IF exists THEN <<"collection_exists">>
    ELSE <<"collection_exists", "create_collection">>

QdrantUpsert(ns, items) ==
    /\ adapter = "qdrant"
    /\ ncalls < MaxCalls
    /\ before' = qd_points
    /\ qd_exists' = TRUE                                    \* _ensure_collection
    /\ qd_points' = IF items = <<>> THEN qd_points
                    ELSE QdrantClientUpsert(qd_points, ns, items)
    /\ io' = QdrantEnsureCollection(qd_exists)
                \o (IF items = <<>> THEN <<>> ELSE <<"upsert">>)
    /\ call' = UpsertCall(ns, items)
    /\ ret' = Returned
    /\ ncalls' = ncalls + 1
    /\ UNCHANGED <<adapter, pg_rows, sq_conn, sq_rows>>

QdrantQuery(ns, vector, top_k, filters) ==
    /\ adapter = "qdrant"
    /\ ncalls < MaxCalls
    /\ before' = qd_points
    /\ qd_exists' = TRUE                                    \* _ensure_collection
    /\ call' = QueryCall(ns, vector, top_k, filters)
    /\ IF top_k < 1
         THEN /\ ret' = ValueError
              /\ io' = QdrantEnsureCollection(qd_exists)
         ELSE /\ \E hits \in QdrantQueryPoints(qd_points, ns, vector, top_k, filters) :
                    ret' = Ret("ok", hits, 0)
              /\ io' = QdrantEnsureCollection(qd_exists) \o <<"query_points">>
    /\ ncalls' = ncalls + 1
    /\ UNCHANGED <<adapter, pg_rows, qd_points, sq_conn, sq_rows>>

QdrantDelete(ns, ids, filters) ==
    /\ adapter = "qdrant"
    /\ ncalls < MaxCalls
    /\ before' = qd_points
    /\ qd_exists' = TRUE                                    \* _ensure_collection
    /\ call' = DeleteCall(ns, ids, filters)
    /\ IF ~IdsTruthy(ids) /\ ~FiltersTruthy(filters)
         THEN /\ ret' = ValueError
              /\ qd_points' = qd_points
              /\ io' = QdrantEnsureCollection(qd_exists)
         ELSE LET count_before == QdrantCountMatching(qd_points, ns, ids, filters)
              IN /\ qd_points' = qd_points \ QdrantDeleteSelector(qd_points, ns, ids, filters)
                 /\ ret' = Ret("ok", <<>>, count_before)
                 /\ io' = QdrantEnsureCollection(qd_exists)
                             \o <<IF IdsTruthy(ids) THEN "retrieve" ELSE "count", "delete">>
    /\ ncalls' = ncalls + 1
    /\ UNCHANGED <<adapter, pg_rows, sq_conn, sq_rows>>

---------------------------------------------------------------------------
(* SQLiteVectorStore *)

OverFetch == 3

\* f"{namespace}:{item_id}"
MakeKey(ns, item_id) == ns \o ":" \o item_id

\* json.dumps of a scalar: a string is quoted, a number is not
JsonScalar(v) == IF v.t = "str" THEN "\"" \o v.s \o "\"" ELSE v.s

\* json.dumps(dict(item.metadata)): the text of each member
JsonDumps(metadata) == [k \in DOMAIN metadata |-> JsonScalar(metadata[k])]

\* json.loads(metadata_json)
JsonLoads(text) ==
    [k \in DOMAIN text |-> CHOOSE v \in Values : JsonScalar(v) = text[k]]

\* all(metadata.get(k) == v for k, v in filters.items())
SqliteFilterMatch(metadata_json, filters) ==
    \A k \in DOMAIN filters.map : PyGetEquals(JsonLoads(metadata_json), k, filters.map[k])

\* DELETE FROM vec_items WHERE namespace = ? AND composite_id IN (...)
SqliteDeleteKeys(rows, ns, keys) ==
    {r \in rows : ~(r.namespace = ns /\ r.composite_id \in keys)}

\* The INSERT statements of _upsert, one per item, each committed on its own;
\* composite_id is the primary key, so an INSERT of a stored key fails and
\* the loop ends there.
RECURSIVE SqliteInsertAll(_, _, _)
SqliteInsertAll(rows, ns, items) ==
    IF items = <<>> THEN [rows |-> rows, ok |-> TRUE]
    ELSE LET item == Head(items)
             key == MakeKey(ns, item.id)
         IN IF \E r \in rows : r.composite_id = key
              THEN [rows |-> rows, ok |-> FALSE]
              ELSE SqliteInsertAll(
                       rows \cup {[composite_id |-> key, namespace |-> ns,
                                   embedding |-> item.vector,
                                   metadata |-> JsonDumps(item.metadata),
                                   item_id |-> item.id]},
                       ns, Tail(items))

\* SELECT item_id, distance, metadata FROM vec_items
\* WHERE embedding MATCH ? AND k = ? AND namespace = ?
SqliteKnnAll(rows, ns, vector, k) ==
    LET part == {r \in rows : r.namespace = ns}
    IN Rankings(part, [r \in part |-> CosineDistance(r.embedding, vector)])
SqliteKnn(rows, ns, vector, k) ==
    LET part == {r \in rows : r.namespace = ns}
    IN {Limit(f, k) :
          f \in Rankings(part, [r \in part |-> CosineDistance(r.embedding, vector)])}

\* SqliteScore with the engine's distance passed on as it is
SqliteScoreRaw(distance) == distance

\* score = 1.0 - (distance / 2.0)
SqliteScore(distance) == One - (distance \div 2)

\* SqliteResults with the engine's distance passed on as the score
SqliteResultsRawDistance(fetched, vector, top_k, filters) ==
    LET keep(r) == FiltersTruthy(filters) => SqliteFilterMatch(r.metadata, filters)
        kept == Limit(SelectSeq(fetched, keep), top_k)
    IN [i \in DOMAIN kept |->
           QueryResult(kept[i].item_id,
                       CosineDistance(kept[i].embedding, vector),
                       JsonLoads(kept[i].metadata),
                       kept[i].namespace)]

\* SqliteResults without the check of the metadata against the filters
SqliteResultsUnfiltered(fetched, vector, top_k, filters) ==
    LET kept == Limit(fetched, top_k)
    IN [i \in DOMAIN kept |->
           QueryResult(kept[i].item_id,
                       SqliteScore(CosineDistance(kept[i].embedding, vector)),
                       JsonLoads(kept[i].metadata),
                       kept[i].namespace)]

\* the loop of _query over the fetched rows
SqliteResults(fetched, vector, top_k, filters) ==
    LET keep(r) == FiltersTruthy(filters) => SqliteFilterMatch(r.metadata, filters)
        kept == Limit(SelectSeq(fetched, keep), top_k)
    IN [i \in DOMAIN kept |->
           QueryResult(kept[i].item_id,
                       SqliteScore(CosineDistance(kept[i].embedding, vector)),
                       JsonLoads(kept[i].metadata),
                       kept[i].namespace)]

\* the rows _delete removes
SqliteDeleteMatching(rows, ns, ids, filters) ==
    IF IdsTruthy(ids) /\ ~FiltersTruthy(filters)
      THEN {r \in rows : /\ r.namespace = ns
                         /\ r.composite_id \in {MakeKey(ns, i) : i \in Range(ListIds(ids, 1))}}
      ELSE LET id_set == IF IdsTruthy(ids) THEN Range(ListIds(ids, 1)) ELSE {}
               matching_ids ==
                   {r.item_id : r \in
                       {r \in rows : /\ r.namespace = ns
                                     /\ (id_set # {} => r.item_id \in id_set)
                                     /\ (FiltersTruthy(filters) =>
                                            SqliteFilterMatch(r.metadata, filters))}}
           IN {r \in rows : /\ r.namespace = ns
                            /\ r.composite_id \in {MakeKey(ns, i) : i \in matching_ids}}

\* the number of INSERT statements _upsert executes: one per item, up to and
\* including the first that fails
RECURSIVE SqliteInsertsTried(_, _, _)
SqliteInsertsTried(rows, ns, items) ==
    IF items = <<>> THEN 0
    ELSE IF ~SqliteInsertAll(rows, ns, <<Head(items)>>).ok THEN 1
    ELSE 1 + SqliteInsertsTried(SqliteInsertAll(rows, ns, <<Head(items)>>).rows,
                                ns, Tail(items))

\* the engine calls of _get_connection: none once self._conn is set
SqliteGetConnection(conn) ==
    IF conn THEN <<>> ELSE <<"Connection", "loadextension", "CREATE VIRTUAL TABLE">>

SqliteUpsert(ns, items) ==
    /\ adapter = "sqlite"
    /\ ncalls < MaxCalls
    /\ before' = sq_rows
    /\ call' = UpsertCall(ns, items)
    /\ IF items = <<>>
         THEN /\ ret' = Returned
              /\ io' = <<>>
              /\ UNCHANGED <<sq_conn, sq_rows>>
         ELSE LET keys == {MakeKey(ns, items[i].id) : i \in DOMAIN items}
                  done == SqliteInsertAll(SqliteDeleteKeys(sq_rows, ns, keys), ns, items)
              IN /\ sq_conn' = TRUE                         \* _get_connection
                 /\ sq_rows' = done.rows
                 /\ ret' = IF done.ok THEN Returned ELSE EngineError
                 /\ io' = SqliteGetConnection(sq_conn) \o <<"DELETE">>
                             \o [i \in 1..SqliteInsertsTried(
                                            SqliteDeleteKeys(sq_rows, ns, keys), ns, items)
                                   |-> "INSERT"]
    /\ ncalls' = ncalls + 1
    /\ UNCHANGED <<adapter, pg_rows, qd_exists, qd_points>>

SqliteQuery(ns, vector, top_k, filters) ==
    /\ adapter = "sqlite"
    /\ ncalls < MaxCalls
    /\ before' = sq_rows
    /\ call' = QueryCall(ns, vector, top_k, filters)
    /\ IF top_k < 1
         THEN /\ ret' = ValueError
              /\ io' = <<>>
              /\ UNCHANGED sq_conn
         ELSE LET fetch_k == IF FiltersTruthy(filters) THEN top_k * OverFetch ELSE top_k
              IN /\ sq_conn' = TRUE                         \* _get_connection
                 /\ \E fetched \in SqliteKnn(sq_rows, ns, vector, fetch_k) :
                       ret' = Ret("ok", SqliteResults(fetched, vector, top_k, filters), 0)
                 /\ io' = SqliteGetConnection(sq_conn) \o <<"SELECT">>
    /\ ncalls' = ncalls + 1
    /\ UNCHANGED <<adapter, pg_rows, qd_exists, qd_points, sq_rows>>

SqliteDelete(ns, ids, filters) ==
    /\ adapter = "sqlite"
    /\ ncalls < MaxCalls
    /\ before' = sq_rows
    /\ call' = DeleteCall(ns, ids, filters)
    /\ IF ~IdsTruthy(ids) /\ ~FiltersTruthy(filters)
         THEN /\ ret' = ValueError
              /\ io' = <<>>
              /\ UNCHANGED <<sq_conn, sq_rows>>
         ELSE LET gone == SqliteDeleteMatching(sq_rows, ns, ids, filters)
                  by_ids == IdsTruthy(ids) /\ ~FiltersTruthy(filters)
              IN /\ sq_conn' = TRUE                         \* _get_connection
                 /\ sq_rows' = sq_rows \ gone
                 /\ ret' = Ret("ok", <<>>, Cardinality(gone))
                 /\ io' = SqliteGetConnection(sq_conn)
                             \o (IF by_ids \/ gone # {} THEN <<"SELECT", "DELETE">>
                                 ELSE <<"SELECT">>)
    /\ ncalls' = ncalls + 1
    /\ UNCHANGED <<adapter, pg_rows, qd_exists, qd_points>>

\* SELECT item_id, embedding, metadata FROM vec_items
\* WHERE namespace = ? AND composite_id IN (...): the rows come in any order
SqliteSelectByKeys(rows, ns, keys) ==
    LET found == {r \in rows : r.namespace = ns /\ r.composite_id \in keys}
    IN {[i \in DOMAIN f |->
            [id |-> f[i].item_id, vector |-> f[i].embedding,
             metadata |-> JsonLoads(f[i].metadata)]] :
          f \in Rankings(found, [r \in found |-> 0])}

SqliteGetByIds(ns, ids) ==
    /\ adapter = "sqlite"
    /\ ncalls < MaxCalls
    /\ before' = sq_rows
    /\ call' = GetByIdsCall(ns, ids)
    /\ LET id_list == ListIds(ids, 1)
       IN IF id_list = <<>>
            THEN /\ ret' = Returned
                 /\ io' = <<>>
                 /\ UNCHANGED sq_conn
            ELSE /\ sq_conn' = TRUE                         \* _get_connection
                 /\ \E items \in SqliteSelectByKeys(
                                     sq_rows, ns, {MakeKey(ns, i) : i \in Range(id_list)}) :
                       ret' = Ret("ok", items, 0)
                 /\ io' = SqliteGetConnection(sq_conn) \o <<"SELECT">>
    /\ ncalls' = ncalls + 1
    /\ UNCHANGED <<adapter, pg_rows, qd_exists, qd_points, sq_rows>>

\* SELECT COUNT(*) FROM vec_items WHERE namespace = ?, and the same statement
\* without its WHERE clause
SqliteSelectCountAll(rows, ns) == Cardinality(rows)
SqliteSelectCount(rows, ns) == Cardinality({r \in rows : r.namespace = ns})

SqliteCount(ns) ==
    /\ adapter = "sqlite"
    /\ ncalls < MaxCalls
    /\ before' = sq_rows
    /\ call' = CountCall(ns)
    /\ sq_conn' = TRUE                                      \* _get_connection
    /\ ret' = Ret("ok", <<>>, SqliteSelectCount(sq_rows, ns))
    /\ io' = SqliteGetConnection(sq_conn) \o <<"SELECT">>
    /\ ncalls' = ncalls + 1
    /\ UNCHANGED <<adapter, pg_rows, qd_exists, qd_points, sq_rows>>

---------------------------------------------------------------------------

\* The process environment holds none of the pool-size variables.
NoEnviron == [name \in {} |-> ""]

\* an argument of PgVectorStore.__init__ left at None, or given as an integer
NoneArg == [given |-> FALSE, value |-> 0]
IntArg(n) == [given |-> TRUE, value |-> n]

\* No PgVectorStore has been constructed.
NoPool ==
    [status |-> "none", pool_min_size |-> NoneArg, pool_max_size |-> NoneArg,
     min_size |-> 0, max_size |-> 0]

\* SQLiteVectorStore() with the default db_path, never closed.
DbPaths == {":memory:", "file"}
Db(db_path, closes, at_close) ==
    [db_path |-> db_path, closes |-> closes, at_close |-> at_close]
NoDb == Db(":memory:", 0, [key \in {} |-> NoRecord])

\* the callers that can have an operation in flight at the same time
Callers == {1, 2}
\* An operation in flight: pc is the engine call it makes next ("done" once
\* it has returned or raised), io the engine calls it has made.  History of
\* a delete: counted is what its count step found, removed the number of
\* items its delete step removed, raced whether another caller changed the
\* set of items it matches between the two.  History of an upsert: removed
\* is the number of rows its DELETE statement removed.  History of a query:
\* raced is whether an upsert on its namespace was in flight at its SELECT.
Flight(pc, c, r, calls, counted, removed, raced) ==
    [pc |-> pc, call |-> c, ret |-> r, io |-> calls,
     counted |-> counted, removed |-> removed, raced |-> raced]
\* flight maps the callers that have called to their operation
NoFlight == [c \in {} |-> Flight("done", UpsertCall("A", <<>>), Returned, <<>>, 0, 0, FALSE)]

\* One store is used by one caller at a time, in the default environment.
AuxInit ==
    /\ environ = NoEnviron
    /\ pool = NoPool
    /\ sq_db = NoDb
    /\ flight = NoFlight

Init ==
    /\ AuxInit
    /\ adapter \in Adapters
    /\ pg_rows = {}
    /\ qd_exists = FALSE
    /\ qd_points = {}
    /\ sq_conn = FALSE
    /\ sq_rows = {}
    /\ call = Call("init", "A", <<>>, <<>>, 0, NoIds, NoFilters)
    /\ ret = Returned
    /\ io = <<>>
    /\ before = {}
    /\ log = [key \in Keys |-> NoRecord]
    /\ ncalls = 0

\* One public operation is called.  The history log is not kept here: it
\* is kept by HistSpec below, for the properties that are about the past.
Next ==
    \/ \E ns \in Namespaces, items \in Batches :
          PgUpsert(ns, items) /\ UNCHANGED <<log, aux>>
    \/ \E ns \in Namespaces, v \in Vectors, k \in TopKs, f \in FilterArgs :
          PgQuery(ns, v, k, f) /\ UNCHANGED <<log, aux>>
    \/ \E ns \in Namespaces, ids \in IdArgs, f \in FilterArgs :
          PgDelete(ns, ids, f) /\ UNCHANGED <<log, aux>>
    \/ \E ns \in Namespaces, items \in Batches :
          QdrantUpsert(ns, items) /\ UNCHANGED <<log, aux>>
    \/ \E ns \in Namespaces, v \in Vectors, k \in TopKs, f \in FilterArgs :
          QdrantQuery(ns, v, k, f) /\ UNCHANGED <<log, aux>>
    \/ \E ns \in Namespaces, ids \in IdArgs, f \in FilterArgs :
          QdrantDelete(ns, ids, f) /\ UNCHANGED <<log, aux>>
    \/ \E ns \in Namespaces, items \in Batches :
          SqliteUpsert(ns, items) /\ UNCHANGED <<log, aux>>
    \/ \E ns \in Namespaces, v \in Vectors, k \in TopKs, f \in FilterArgs :
          SqliteQuery(ns, v, k, f) /\ UNCHANGED <<log, aux>>
    \/ \E ns \in Namespaces, ids \in IdArgs, f \in FilterArgs :
          SqliteDelete(ns, ids, f) /\ UNCHANGED <<log, aux>>
    \/ \E ns \in Namespaces, ids \in IdArgs \ {NoIds} :
          SqliteGetByIds(ns, ids) /\ UNCHANGED <<log, aux>>
    \/ \E ns \in Namespaces : SqliteCount(ns) /\ UNCHANGED <<log, aux>>

Spec == Init /\ [][Next]_vars

\* The same operations with the history log kept: what each call does to the
\* log follows from the call and from what it returned.
LogOf(old, c, r) ==
    IF c.op = "upsert"
      THEN LogUpsert(old, c.namespace, c.items, r.status = "ok")
    ELSE IF c.op = "delete" /\ r.status = "ok"
      THEN LogDelete(old, c.namespace, c.ids, c.filters)
    ELSE old

LogStep ==
    /\ log' = LogOf(log, call', ret')
    /\ UNCHANGED aux

HistNext ==
    \/ \E ns \in Namespaces, items \in Batches :
          PgUpsert(ns, items) /\ LogStep
    \/ \E ns \in Namespaces, v \in Vectors, k \in TopKs, f \in FilterArgs :
          PgQuery(ns, v, k, f) /\ LogStep
    \/ \E ns \in Namespaces, ids \in IdArgs, f \in FilterArgs :
          PgDelete(ns, ids, f) /\ LogStep
    \/ \E ns \in Namespaces, items \in Batches :
          QdrantUpsert(ns, items) /\ LogStep
    \/ \E ns \in Namespaces, v \in Vectors, k \in TopKs, f \in FilterArgs :
          QdrantQuery(ns, v, k, f) /\ LogStep
    \/ \E ns \in Namespaces, ids \in IdArgs, f \in FilterArgs :
          QdrantDelete(ns, ids, f) /\ LogStep
    \/ \E ns \in Namespaces, items \in Batches :
          SqliteUpsert(ns, items) /\ LogStep
    \/ \E ns \in Namespaces, v \in Vectors, k \in TopKs, f \in FilterArgs :
          SqliteQuery(ns, v, k, f) /\ LogStep
    \/ \E ns \in Namespaces, ids \in IdArgs, f \in FilterArgs :
          SqliteDelete(ns, ids, f) /\ LogStep
    \/ \E ns \in Namespaces, ids \in IdArgs \ {NoIds} :
          SqliteGetByIds(ns, ids) /\ LogStep
    \/ \E ns \in Namespaces : SqliteCount(ns) /\ LogStep

HistSpec == Init /\ [][HistNext]_vars

\* Queries over stored vectors at more angles to the query vector: equal,
\* close, orthogonal, obtuse and opposite.  A store starts as it is after its
\* first upsert, of one or two items into namespace "A", has returned.
ScoreVectors == Vectors \cup {<<-1, 0>>, <<3, 4>>, <<4, 3>>}
ScoreItems == [id : Ids, vector : ScoreVectors, metadata : {EmptyMap}]
ScoreBatches == {<<i>> : i \in ScoreItems}
                \cup {<<i, j>> : i \in {i \in ScoreItems : i.id = "x"},
                                  j \in {j \in ScoreItems : j.id = "y"}}

ScoreInit ==
    /\ AuxInit
    /\ adapter \in Adapters
    /\ \E items \in ScoreBatches :
          /\ pg_rows = IF adapter = "pg" THEN PgExecuteMany({}, "A", items) ELSE {}
          /\ qd_points = IF adapter = "qdrant"
                           THEN QdrantClientUpsert({}, "A", items) ELSE {}
          /\ sq_rows = IF adapter = "sqlite"
                         THEN SqliteInsertAll({}, "A", items).rows ELSE {}
          /\ call = UpsertCall("A", items)
    /\ qd_exists = (adapter = "qdrant")
    /\ sq_conn = (adapter = "sqlite")
    /\ ret = Returned
    /\ io = IF adapter = "pg" THEN <<"pool.connection", "executemany">>
            ELSE IF adapter = "qdrant" THEN QdrantEnsureCollection(FALSE) \o <<"upsert">>
            ELSE SqliteGetConnection(FALSE) \o <<"DELETE", "INSERT">>
    /\ before = {}
    /\ log = [key \in Keys |-> NoRecord]
    /\ ncalls = 1

ScoreNext ==
    \/ \E ns \in Namespaces, v \in ScoreVectors, k \in TopKs :
          PgQuery(ns, v, k, NoFilters) /\ UNCHANGED <<log, aux>>
    \/ \E ns \in Namespaces, v \in ScoreVectors, k \in TopKs :
          QdrantQuery(ns, v, k, NoFilters) /\ UNCHANGED <<log, aux>>
    \/ \E ns \in Namespaces, v \in ScoreVectors, k \in TopKs :
          SqliteQuery(ns, v, k, NoFilters) /\ UNCHANGED <<log, aux>>

ScoreSpec == ScoreInit /\ [][ScoreNext]_vars

---------------------------------------------------------------------------
(* PgVectorStore.__init__: the sizes of the connection pool *)

EnvVars == {"LLM_KIT_PG_POOL_MIN_SIZE", "LLM_KIT_PG_POOL_MAX_SIZE"}
\* what the process may have put in a pool-size variable
EnvValues ==
    [ LLM_KIT_PG_POOL_MIN_SIZE |-> {"2", "5", "many"},
      LLM_KIT_PG_POOL_MAX_SIZE |-> {"20", "many"} ]
\* the pool_min_size and pool_max_size arguments
PoolMinSizes == {NoneArg, IntArg(1), IntArg(3)}
PoolMaxSizes == {NoneArg, IntArg(10), IntArg(15)}

DefaultPoolMinSize == 1
DefaultPoolMaxSize == 10

\* int(s) of Python: the integer a string of digits denotes, ValueError for
\* any other string
PyInt(s) ==
    CASE s = "2"  -> [ok |-> TRUE, value |-> 2]
      [] s = "5"  -> [ok |-> TRUE, value |-> 5]
      [] s = "20" -> [ok |-> TRUE, value |-> 20]
      [] OTHER    -> [ok |-> FALSE, value |-> 0]

\* os.environ.get(env_var) is None
EnvUnset(env, env_var) == env_var \notin DOMAIN env

\* _get_param_value: the argument when it is not None, else the environment
\* variable converted with int() when it is set, else the default
GetParamValue(passed_value, env_var, default, env) ==
    IF passed_value.given THEN [ok |-> TRUE, value |-> passed_value.value]
    ELSE IF ~EnvUnset(env, env_var) THEN PyInt(env[env_var])
    ELSE [ok |-> TRUE, value |-> default]

\* PgVectorStore(dsn, pool_min_size, pool_max_size): the pool is made with
\* the two sizes _get_param_value gives; a ValueError of int() leaves the
\* constructor.
PgInit(pool_min_size, pool_max_size) ==
    LET lo == GetParamValue(pool_min_size, "LLM_KIT_PG_POOL_MIN_SIZE",
                            DefaultPoolMinSize, environ)
        hi == GetParamValue(pool_max_size, "LLM_KIT_PG_POOL_MAX_SIZE",
                            DefaultPoolMaxSize, environ)
    IN /\ pool' = IF lo.ok /\ hi.ok
                    THEN [status |-> "open",
                          pool_min_size |-> pool_min_size,
                          pool_max_size |-> pool_max_size,
                          min_size |-> lo.value, max_size |-> hi.value]
                  ELSE [status |-> "ValueError",
                        pool_min_size |-> pool_min_size,
                        pool_max_size |-> pool_max_size,
                        min_size |-> 0, max_size |-> 0]
       /\ UNCHANGED <<adapter, pg_rows, qd_exists, qd_points, sq_conn, sq_rows,
                      call, ret, io, before, log, ncalls, environ, sq_db, flight>>

\* The process sets a pool-size variable in its environment, or removes it.
Setenv(name, value) ==
    /\ environ' = [n \in DOMAIN environ \cup {name} |->
                      IF n = name THEN value ELSE environ[n]]
    /\ UNCHANGED <<adapter, pg_rows, qd_exists, qd_points, sq_conn, sq_rows,
                   call, ret, io, before, log, ncalls, pool, sq_db, flight>>

Unsetenv(name) ==
    /\ name \in DOMAIN environ
    /\ environ' = [n \in DOMAIN environ \ {name} |-> environ[n]]
    /\ UNCHANGED <<adapter, pg_rows, qd_exists, qd_points, sq_conn, sq_rows,
                   call, ret, io, before, log, ncalls, pool, sq_db, flight>>

PoolInit == Init /\ adapter = "pg"

PoolNext ==
    \/ \E lo \in PoolMinSizes, hi \in PoolMaxSizes : PgInit(lo, hi)
    \/ \E name \in EnvVars : \E value \in EnvValues[name] : Setenv(name, value)
    \/ \E name \in EnvVars : Unsetenv(name)

PoolSpec == PoolInit /\ [][PoolNext]_vars

---------------------------------------------------------------------------
(* SQLiteVectorStore alone: its writes and count, with the history log kept *)

SqliteInit == Init /\ adapter = "sqlite"

SqliteNext ==
    \/ \E ns \in Namespaces, items \in Batches :
          SqliteUpsert(ns, items) /\ LogStep
    \/ \E ns \in Namespaces, ids \in IdArgs, f \in FilterArgs :
          SqliteDelete(ns, ids, f) /\ LogStep
    \/ \E ns \in Namespaces : SqliteCount(ns) /\ LogStep

SqliteSpec == SqliteInit /\ [][SqliteNext]_vars

---------------------------------------------------------------------------
(* SQLiteVectorStore: close, and the store opened again on the same db_path *)

\* What the database holds once its connection is closed: a database in a
\* file keeps its rows (every statement was committed as it ran), the
\* ":memory:" database goes with its connection.
SqliteCloseRowsLost(db_path, rows) == {}
SqliteCloseRows(db_path, rows) == IF db_path = ":memory:" THEN {} ELSE rows

\* close(): the connection, if there is one, is closed and _conn is None
\* again.  The instance is then as a new instance constructed on the same
\* db_path: its next operation opens the database through _get_connection.
SqliteClose ==
    /\ adapter = "sqlite"
    /\ ncalls < MaxCalls
    /\ before' = sq_rows
    /\ call' = Call("close", "A", <<>>, <<>>, 0, NoIds, NoFilters)
    /\ ret' = Returned
    /\ io' = IF sq_conn THEN <<"close">> ELSE <<>>
    /\ sq_conn' = FALSE
    /\ sq_rows' = IF sq_conn THEN SqliteCloseRows(sq_db.db_path, sq_rows) ELSE sq_rows
    /\ sq_db' = Db(sq_db.db_path, sq_db.closes + 1, log)
    /\ ncalls' = ncalls + 1
    /\ UNCHANGED <<adapter, pg_rows, qd_exists, qd_points, log, environ, pool, flight>>

\* ids given as a list, or not given
ListIdArgs == {ids \in IdArgs : ids.kind # "gen"}

DurableInit ==
    /\ adapter = "sqlite"
    /\ pg_rows = {}
    /\ qd_exists = FALSE
    /\ qd_points = {}
    /\ sq_conn = FALSE
    /\ sq_rows = {}
    /\ call = Call("init", "A", <<>>, <<>>, 0, NoIds, NoFilters)
    /\ ret = Returned
    /\ io = <<>>
    /\ before = {}
    /\ log = [key \in Keys |-> NoRecord]
    /\ ncalls = 0
    /\ environ = NoEnviron
    /\ pool = NoPool
    /\ \E db_path \in DbPaths : sq_db = Db(db_path, 0, NoDb.at_close)
    /\ flight = NoFlight

DurableNext ==
    \/ \E ns \in Namespaces, items \in Batches :
          SqliteUpsert(ns, items) /\ LogStep
    \/ \E ns \in Namespaces, v \in Vectors, k \in TopKs :
          SqliteQuery(ns, v, k, NoFilters) /\ LogStep
    \/ \E ns \in Namespaces, ids \in ListIdArgs :
          SqliteDelete(ns, ids, NoFilters) /\ LogStep
    \/ SqliteClose

DurableSpec == DurableInit /\ [][DurableNext]_vars

---------------------------------------------------------------------------
(* A native engine call fails during an operation *)

\* The engine calls an operation makes when none of them fails, in order.
PgCalls(c) ==
    IF c.op = "upsert"
      THEN IF c.items = <<>> THEN <<>> ELSE <<"pool.connection", "executemany">>
    ELSE IF c.op = "query"
      THEN IF c.top_k < 1 THEN <<>> ELSE <<"pool.connection", "execute">>
    ELSE IF ~IdsTruthy(c.ids) /\ ~FiltersTruthy(c.filters) THEN <<>>
    ELSE <<"pool.connection", "execute">>

QdrantCalls(c, exists) ==
    QdrantEnsureCollection(exists) \o
       (IF c.op = "upsert"
          THEN IF c.items = <<>> THEN <<>> ELSE <<"upsert">>
        ELSE IF c.op = "query"
          THEN IF c.top_k < 1 THEN <<>> ELSE <<"query_points">>
        ELSE IF ~IdsTruthy(c.ids) /\ ~FiltersTruthy(c.filters) THEN <<>>
        ELSE <<IF IdsTruthy(c.ids) THEN "retrieve" ELSE "count", "delete">>)

SqliteCalls(c, conn, rows) ==
    IF c.op = "upsert"
      THEN IF c.items = <<>> THEN <<>>
           ELSE SqliteGetConnection(conn) \o <<"DELETE">>
                   \o [i \in DOMAIN c.items |-> "INSERT"]
    ELSE IF c.op = "query"
      THEN IF c.top_k < 1 THEN <<>> ELSE SqliteGetConnection(conn) \o <<"SELECT">>
    ELSE IF ~IdsTruthy(c.ids) /\ ~FiltersTruthy(c.filters) THEN <<>>
    ELSE SqliteGetConnection(conn) \o
            (IF (IdsTruthy(c.ids) /\ ~FiltersTruthy(c.filters))
                  \/ SqliteDeleteMatching(rows, c.namespace, c.ids, c.filters) # {}
               THEN <<"SELECT", "DELETE">> ELSE <<"SELECT">>)

\* The engine calls made when call number `at` of them raises: no adapter
\* has an except clause or a retry loop, so the exception leaves the
\* operation there.  FailedCallsRetried is what one retry would make.
FailedCallsRetried(calls, at) == SubSeq(calls, 1, at) \o <<calls[at]>>
FailedCalls(calls, at) == SubSeq(calls, 1, at)

\* `async with self._pool.connection()`: leaving the block with an exception
\* rolls the transaction back, so the rows are those before the call and not
\* what the statements had done so far.
PgNoRollback(rows, tentative) == tentative
PgRollback(rows, tentative) == rows

Fails(c, calls, at) ==
    /\ ncalls < MaxCalls
    /\ at \in DOMAIN calls
    /\ call' = c
    /\ ret' = EngineError
    /\ io' = FailedCalls(calls, at)
    /\ ncalls' = ncalls + 1
    /\ UNCHANGED <<adapter, log, aux>>

\* executemany raises after `done` of the rows, or the pool gives no connection
PgUpsertFails(ns, items, at, done) ==
    /\ adapter = "pg"
    /\ Fails(UpsertCall(ns, items), PgCalls(UpsertCall(ns, items)), at)
    /\ done \in 0..(Len(items) - 1) /\ (at = 1 => done = 0)
    /\ before' = pg_rows
    /\ pg_rows' = PgRollback(pg_rows, PgExecuteMany(pg_rows, ns, SubSeq(items, 1, done)))
    /\ UNCHANGED <<qd_exists, qd_points, sq_conn, sq_rows>>

PgQueryFails(ns, vector, top_k, filters, at) ==
    /\ adapter = "pg"
    /\ Fails(QueryCall(ns, vector, top_k, filters),
             PgCalls(QueryCall(ns, vector, top_k, filters)), at)
    /\ before' = pg_rows
    /\ UNCHANGED <<pg_rows, qd_exists, qd_points, sq_conn, sq_rows>>

\* the DELETE raises, or the block is left with an error after it has run
PgDeleteFails(ns, ids, filters, at, ran) ==
    /\ adapter = "pg"
    /\ Fails(DeleteCall(ns, ids, filters), PgCalls(DeleteCall(ns, ids, filters)), at)
    /\ at = 1 => ~ran
    /\ before' = pg_rows
    /\ pg_rows' = PgRollback(pg_rows,
                             IF ran THEN pg_rows \ PgDeleteWhere(pg_rows, ns, ids, filters)
                             ELSE pg_rows)
    /\ UNCHANGED <<qd_exists, qd_points, sq_conn, sq_rows>>

\* A service call that raises has changed nothing; the collection exists
\* once create_collection has returned.
QdrantFails(c, at) ==
    /\ Fails(c, QdrantCalls(c, qd_exists), at)
    /\ before' = qd_points
    /\ qd_exists' = (qd_exists \/ at > 2)
    /\ UNCHANGED <<pg_rows, qd_points, sq_conn, sq_rows>>

QdrantUpsertFails(ns, items, at) ==
    /\ adapter = "qdrant"
    /\ QdrantFails(UpsertCall(ns, items), at)

QdrantQueryFails(ns, vector, top_k, filters, at) ==
    /\ adapter = "qdrant"
    /\ QdrantFails(QueryCall(ns, vector, top_k, filters), at)

QdrantDeleteFails(ns, ids, filters, at) ==
    /\ adapter = "qdrant"
    /\ QdrantFails(DeleteCall(ns, ids, filters), at)

\* The rows after the DELETE of _upsert and the first `done` of its INSERTs,
\* each statement committed as it ran; and the rows had the statements been
\* one transaction that is rolled back.
SqliteUpsertRollback(rows, ns, items, done) == rows
SqliteUpsertPrefix(rows, ns, items, done) ==
    SqliteInsertAll(
        SqliteDeleteKeys(rows, ns, {MakeKey(ns, items[i].id) : i \in DOMAIN items}),
        ns, SubSeq(items, 1, done)).rows

\* The connection is open.  The DELETE raises (at = 1) or the INSERT of item
\* at - 1 does, for a reason of its own (a vector of the wrong dimension, a
\* full disk): the ids of the batch are distinct.
SqliteUpsertFails(ns, items, at) ==
    /\ adapter = "sqlite" /\ sq_conn
    /\ \A i, j \in DOMAIN items : items[i].id = items[j].id => i = j
    /\ Fails(UpsertCall(ns, items), SqliteCalls(UpsertCall(ns, items), sq_conn, sq_rows), at)
    /\ before' = sq_rows
    /\ sq_rows' = IF at = 1 THEN sq_rows ELSE SqliteUpsertPrefix(sq_rows, ns, items, at - 2)
    /\ UNCHANGED <<pg_rows, qd_exists, qd_points, sq_conn>>

SqliteQueryFails(ns, vector, top_k, filters, at) ==
    /\ adapter = "sqlite" /\ sq_conn
    /\ Fails(QueryCall(ns, vector, top_k, filters),
             SqliteCalls(QueryCall(ns, vector, top_k, filters), sq_conn, sq_rows), at)
    /\ before' = sq_rows
    /\ UNCHANGED <<pg_rows, qd_exists, qd_points, sq_conn, sq_rows>>

SqliteDeleteFails(ns, ids, filters, at) ==
    /\ adapter = "sqlite" /\ sq_conn
    /\ Fails(DeleteCall(ns, ids, filters),
             SqliteCalls(DeleteCall(ns, ids, filters), sq_conn, sq_rows), at)
    /\ before' = sq_rows
    /\ UNCHANGED <<pg_rows, qd_exists, qd_points, sq_conn, sq_rows>>

\* the operations that fail: batches of one or two items with distinct ids,
\* queries without filters, deletes without filters or with one
FailBatches ==
    {b \in Batches : /\ b # <<>>
                     /\ \A i, j \in DOMAIN b : b[i].id = b[j].id => i = j
                     /\ \A i \in DOMAIN b : "_namespace" \notin DOMAIN b[i].metadata
                     /\ Len(b) = 1 => b[1].vector = <<0, 1>>}
FailVectors == {<<1, 0>>}
FailFilters == {NoFilters, [given |-> TRUE, map |-> "type" :> Txt("1")]}

\* The store has been used once: a batch was upserted in namespace "A"; or,
\* for the remote service, it is new and its collection does not exist.
FailInit ==
    /\ AuxInit
    /\ adapter \in Adapters
    /\ \E items \in FailBatches \cup {<<>>} :
          /\ items = <<>> => adapter = "qdrant"
          /\ pg_rows = IF adapter = "pg" THEN PgExecuteMany({}, "A", items) ELSE {}
          /\ qd_points = IF adapter = "qdrant"
                           THEN QdrantClientUpsert({}, "A", items) ELSE {}
          /\ sq_rows = IF adapter = "sqlite"
                         THEN SqliteInsertAll({}, "A", items).rows ELSE {}
          /\ qd_exists = (adapter = "qdrant" /\ items # <<>>)
          /\ call = IF items = <<>>
                      THEN Call("init", "A", <<>>, <<>>, 0, NoIds, NoFilters)
                    ELSE UpsertCall("A", items)
          /\ io = IF items = <<>> THEN <<>>
                  ELSE IF adapter = "pg" THEN PgCalls(UpsertCall("A", items))
                  ELSE IF adapter = "qdrant" THEN QdrantCalls(UpsertCall("A", items), FALSE)
                  ELSE SqliteCalls(UpsertCall("A", items), FALSE, {})
          /\ ncalls = IF items = <<>> THEN 0 ELSE 1
    /\ sq_conn = (adapter = "sqlite")
    /\ ret = Returned
    /\ before = {}
    /\ log = [key \in Keys |-> NoRecord]

\* Any engine call of the operation can be the one that fails.
FailNext ==
    \/ \E ns \in Namespaces, items \in FailBatches :
          \E at \in DOMAIN PgCalls(UpsertCall(ns, items)), done \in 0..1 :
             PgUpsertFails(ns, items, at, done)
    \/ \E ns \in Namespaces, v \in FailVectors, k \in TopKs :
          \E at \in DOMAIN PgCalls(QueryCall(ns, v, k, NoFilters)) :
             PgQueryFails(ns, v, k, NoFilters, at)
    \/ \E ns \in Namespaces, ids \in IdArgs, f \in FailFilters :
          \E at \in DOMAIN PgCalls(DeleteCall(ns, ids, f)), ran \in BOOLEAN :
             PgDeleteFails(ns, ids, f, at, ran)
    \/ \E ns \in Namespaces, items \in FailBatches \cup {<<>>} :
          \E at \in DOMAIN QdrantCalls(UpsertCall(ns, items), qd_exists) :
             QdrantUpsertFails(ns, items, at)
    \/ \E ns \in Namespaces, v \in FailVectors, k \in TopKs :
          \E at \in DOMAIN QdrantCalls(QueryCall(ns, v, k, NoFilters), qd_exists) :
             QdrantQueryFails(ns, v, k, NoFilters, at)
    \/ \E ns \in Namespaces, ids \in IdArgs, f \in FailFilters :
          \E at \in DOMAIN QdrantCalls(DeleteCall(ns, ids, f), qd_exists) :
             QdrantDeleteFails(ns, ids, f, at)
    \/ \E ns \in Namespaces, items \in FailBatches :
          \E at \in DOMAIN SqliteCalls(UpsertCall(ns, items), sq_conn, sq_rows) :
             SqliteUpsertFails(ns, items, at)
    \/ \E ns \in Namespaces, v \in FailVectors, k \in TopKs :
          \E at \in DOMAIN SqliteCalls(QueryCall(ns, v, k, NoFilters), sq_conn, sq_rows) :
             SqliteQueryFails(ns, v, k, NoFilters, at)
    \/ \E ns \in Namespaces, ids \in IdArgs, f \in FailFilters :
          \E at \in DOMAIN SqliteCalls(DeleteCall(ns, ids, f), sq_conn, sq_rows) :
             SqliteDeleteFails(ns, ids, f, at)

FailSpec == FailInit /\ [][FailNext]_vars

---------------------------------------------------------------------------
(* Operations in flight at the same time on one store instance *)

\* QdrantVectorStore's operations are coroutines: they give way to each
\* other at every awaited service call.  SQLiteVectorStore's operations run
\* their statements in worker threads (asyncio.to_thread), one thread per
\* call in flight, on the one connection: the connection runs one statement
\* at a time, and nothing keeps the statements of one call together.

\* the ids of the items a delete in flight matches in a store
MatchedIds(f, store) ==
    IF adapter = "qdrant"
      THEN {p.id : p \in QdrantDeleteSelector(store, f.call.namespace,
                                              f.call.ids, f.call.filters)}
    ELSE {r.item_id : r \in SqliteDeleteMatching(store, f.call.namespace,
                                                 f.call.ids, f.call.filters)}

\* a delete that has counted and not yet deleted
BetweenCountAndDelete(f) == f.call.op = "delete" /\ f.pc \in {"delete", "DELETE"}

\* Caller c's operation makes an engine call that leaves it as record f and
\* the store as `store`.
Stepped(c, f, old, store) ==
    [d \in DOMAIN flight |->
        IF d = c THEN f
        ELSE IF BetweenCountAndDelete(flight[d])
                  /\ MatchedIds(flight[d], old) # MatchedIds(flight[d], store)
          THEN [flight[d] EXCEPT !.raced = TRUE]
        ELSE flight[d]]

\* The operation of caller c returns or raises: it is the last operation.
Finished(f, old) ==
    /\ call' = f.call
    /\ ret' = f.ret
    /\ io' = f.io
    /\ before' = old
    /\ ncalls' = ncalls + 1

\* the service call an operation makes once the collection is there
QdrantFirstCall(c) ==
    IF c.op = "upsert" THEN "upsert"
    ELSE IF IdsTruthy(c.ids) THEN "retrieve" ELSE "count"

Made(f, pc, engine_call) == [f EXCEPT !.pc = pc, !.io = f.io \o <<engine_call>>]

\* A caller calls upsert (with items) or delete (with ids or filters).
QdrantBegin(c, op) ==
    /\ adapter = "qdrant"
    /\ c \notin DOMAIN flight
    /\ flight' = [d \in DOMAIN flight \cup {c} |->
                     IF d = c
                       THEN Flight("collection_exists", op, Returned, <<>>, 0, 0, FALSE)
                     ELSE flight[d]]
    /\ UNCHANGED <<adapter, pg_rows, qd_exists, qd_points, sq_conn, sq_rows,
                   call, ret, io, before, log, ncalls, environ, pool, sq_db>>

\* _ensure_collection: exists = await client.collection_exists(...)
QdrantCollectionExists(c) ==
    LET f == flight[c]
    IN /\ adapter = "qdrant"
       /\ f.pc = "collection_exists"
       /\ flight' = [flight EXCEPT ![c] =
                        Made(f, IF qd_exists THEN QdrantFirstCall(f.call)
                                ELSE "create_collection", "collection_exists")]
       /\ UNCHANGED <<adapter, pg_rows, qd_exists, qd_points, sq_conn, sq_rows,
                      call, ret, io, before, log, ncalls, environ, pool, sq_db>>

\* _ensure_collection: await client.create_collection(...); the service
\* refuses to create a collection that exists.
QdrantCreateCollection(c) ==
    LET f == flight[c]
    IN /\ adapter = "qdrant"
       /\ f.pc = "create_collection"
       /\ IF qd_exists
            THEN LET g == [Made(f, "done", "create_collection") EXCEPT !.ret = EngineError]
                 IN /\ flight' = [flight EXCEPT ![c] = g]
                    /\ Finished(g, qd_points)
                    /\ UNCHANGED qd_exists
            ELSE /\ flight' = [flight EXCEPT ![c] =
                                  Made(f, QdrantFirstCall(f.call), "create_collection")]
                 /\ qd_exists' = TRUE
                 /\ UNCHANGED <<call, ret, io, before, ncalls>>
       /\ UNCHANGED <<adapter, pg_rows, qd_points, sq_conn, sq_rows,
                      log, environ, pool, sq_db>>

\* upsert: await client.upsert(...)
QdrantUpsertPoints(c) ==
    LET f == flight[c]
        g == Made(f, "done", "upsert")
        points == QdrantClientUpsert(qd_points, f.call.namespace, f.call.items)
    IN /\ adapter = "qdrant"
       /\ f.pc = "upsert"
       /\ qd_points' = points
       /\ flight' = Stepped(c, g, qd_points, points)
       /\ Finished(g, qd_points)
       /\ UNCHANGED <<adapter, pg_rows, qd_exists, sq_conn, sq_rows,
                      log, environ, pool, sq_db>>

\* delete: count_before = await self._count_matching(...)
QdrantCount(c) ==
    LET f == flight[c]
    IN /\ adapter = "qdrant"
       /\ f.pc \in {"retrieve", "count"}
       /\ flight' = [flight EXCEPT ![c] =
                        [Made(f, "delete", f.pc) EXCEPT
                            !.counted = QdrantCountMatching(qd_points, f.call.namespace,
                                                            f.call.ids, f.call.filters)]]
       /\ UNCHANGED <<adapter, pg_rows, qd_exists, qd_points, sq_conn, sq_rows,
                      call, ret, io, before, log, ncalls, environ, pool, sq_db>>

\* delete: await client.delete(...); return count_before
QdrantDeletePoints(c) ==
    LET f == flight[c]
        gone == QdrantDeleteSelector(qd_points, f.call.namespace, f.call.ids, f.call.filters)
        g == [Made(f, "done", "delete") EXCEPT !.removed = Cardinality(gone),
                                               !.ret = Ret("ok", <<>>, f.counted)]
    IN /\ adapter = "qdrant"
       /\ f.pc = "delete"
       /\ qd_points' = qd_points \ gone
       /\ flight' = Stepped(c, g, qd_points, qd_points \ gone)
       /\ Finished(g, qd_points)
       /\ UNCHANGED <<adapter, pg_rows, qd_exists, sq_conn, sq_rows,
                      log, environ, pool, sq_db>>

\* A caller calls upsert or delete by ids; the connection is open.
SqliteBegin(c, op) ==
    /\ adapter = "sqlite" /\ sq_conn
    /\ c \notin DOMAIN flight
    /\ flight' = [d \in DOMAIN flight \cup {c} |->
                     IF d = c
                       THEN Flight(IF op.op = "upsert" THEN "DELETE" ELSE "SELECT",
                                   op, Returned, <<>>, 0, 0, FALSE)
                     ELSE flight[d]]
    /\ UNCHANGED <<adapter, pg_rows, qd_exists, qd_points, sq_conn, sq_rows,
                   call, ret, io, before, log, ncalls, environ, pool, sq_db>>

\* _upsert: the DELETE of the batch's composite ids
SqliteUpsertDelete(c) ==
    LET f == flight[c]
        keys == {MakeKey(f.call.namespace, f.call.items[i].id) : i \in DOMAIN f.call.items}
        rows == SqliteDeleteKeys(sq_rows, f.call.namespace, keys)
    IN /\ adapter = "sqlite"
       /\ f.call.op = "upsert" /\ f.pc = "DELETE"
       /\ sq_rows' = rows
       /\ flight' = Stepped(c, [Made(f, "INSERT", "DELETE") EXCEPT
                                    !.removed = Cardinality(sq_rows \ rows)],
                            sq_rows, rows)
       /\ UNCHANGED <<adapter, pg_rows, qd_exists, qd_points, sq_conn,
                      call, ret, io, before, log, ncalls, environ, pool, sq_db>>

\* _upsert: the INSERT of the next item; it raises when the key is stored
SqliteUpsertInsert(c) ==
    LET f == flight[c]
        n == Len(f.io)                       \* the DELETE and n - 1 INSERTs made
        done == SqliteInsertAll(sq_rows, f.call.namespace, <<f.call.items[n]>>)
        last == ~done.ok \/ n = Len(f.call.items)
        g == [Made(f, IF last THEN "done" ELSE "INSERT", "INSERT")
                 EXCEPT !.ret = IF done.ok THEN Returned ELSE EngineError]
    IN /\ adapter = "sqlite"
       /\ f.call.op = "upsert" /\ f.pc = "INSERT"
       /\ sq_rows' = done.rows
       /\ flight' = Stepped(c, g, sq_rows, done.rows)
       /\ IF last THEN Finished(g, sq_rows)
          ELSE UNCHANGED <<call, ret, io, before, ncalls>>
       /\ UNCHANGED <<adapter, pg_rows, qd_exists, qd_points, sq_conn,
                      log, environ, pool, sq_db>>

\* _delete, ids only: SELECT COUNT(*) ... WHERE composite_id IN (...)
SqliteDeleteCount(c) ==
    LET f == flight[c]
    IN /\ adapter = "sqlite"
       /\ f.call.op = "delete" /\ f.pc = "SELECT"
       /\ flight' = [flight EXCEPT ![c] =
                        [Made(f, "DELETE", "SELECT") EXCEPT
                            !.counted = Cardinality(SqliteDeleteMatching(
                                            sq_rows, f.call.namespace,
                                            f.call.ids, f.call.filters))]]
       /\ UNCHANGED <<adapter, pg_rows, qd_exists, qd_points, sq_conn, sq_rows,
                      call, ret, io, before, log, ncalls, environ, pool, sq_db>>

\* _delete, ids only: DELETE ... WHERE composite_id IN (...); return count_before
SqliteDeleteRows(c) ==
    LET f == flight[c]
        gone == SqliteDeleteMatching(sq_rows, f.call.namespace, f.call.ids, f.call.filters)
        g == [Made(f, "done", "DELETE") EXCEPT !.removed = Cardinality(gone),
                                               !.ret = Ret("ok", <<>>, f.counted)]
    IN /\ adapter = "sqlite"
       /\ f.call.op = "delete" /\ f.pc = "DELETE"
       /\ sq_rows' = sq_rows \ gone
       /\ flight' = Stepped(c, g, sq_rows, sq_rows \ gone)
       /\ Finished(g, sq_rows)
       /\ UNCHANGED <<adapter, pg_rows, qd_exists, qd_points, sq_conn,
                      log, environ, pool, sq_db>>

\* what the callers call: upserts of FailBatches, deletes by a list of ids
ConcCalls ==
    {UpsertCall(ns, items) : ns \in Namespaces, items \in FailBatches}
    \cup {DeleteCall(ns, ids, NoFilters) :
            ns \in Namespaces, ids \in {i \in IdArgs : i.kind = "list" /\ i.seq # <<>>}}

\* The store has been used by one caller before: something was upserted in
\* namespace "A"; or it is a new QdrantVectorStore without its collection.
ConcInit ==
    /\ FailInit
    /\ adapter \in {"qdrant", "sqlite"}

ConcNext ==
    \/ \E c \in Callers, op \in ConcCalls : QdrantBegin(c, op)
    \/ \E c \in DOMAIN flight : QdrantCollectionExists(c)
    \/ \E c \in DOMAIN flight : QdrantCreateCollection(c)
    \/ \E c \in DOMAIN flight : QdrantUpsertPoints(c)
    \/ \E c \in DOMAIN flight : QdrantCount(c)
    \/ \E c \in DOMAIN flight : QdrantDeletePoints(c)
    \/ \E c \in Callers, op \in ConcCalls : SqliteBegin(c, op)
    \/ \E c \in DOMAIN flight : SqliteUpsertDelete(c)
    \/ \E c \in DOMAIN flight : SqliteUpsertInsert(c)
    \/ \E c \in DOMAIN flight : SqliteDeleteCount(c)
    \/ \E c \in DOMAIN flight : SqliteDeleteRows(c)

ConcSpec == ConcInit /\ [][ConcNext]_vars

---------------------------------------------------------------------------
(* SQLiteVectorStore.query on a namespace of more than OverFetch items *)

\* four items at four distances of either query vector, each with or without
\* the metadata the filters ask for
FetchVectors == [x |-> <<1, 0>>, y |-> <<4, 3>>, z |-> <<3, 4>>, w |-> <<0, 1>>]
FetchBatches ==
    {[i \in 1..4 |-> [id |-> <<"x", "y", "z", "w">>[i],
                      vector |-> FetchVectors[<<"x", "y", "z", "w">>[i]],
                      metadata |-> m[i]]] :
        m \in [1..4 -> {EmptyMap, "type" :> Txt("1")}]}

\* The store after one upsert of the four items in namespace "A".
OverFetchInit ==
    /\ AuxInit
    /\ adapter = "sqlite"
    /\ \E items \in FetchBatches :
          /\ sq_rows = SqliteInsertAll({}, "A", items).rows
          /\ call = UpsertCall("A", items)
          /\ io = SqliteCalls(UpsertCall("A", items), FALSE, {})
    /\ pg_rows = {}
    /\ qd_exists = FALSE
    /\ qd_points = {}
    /\ sq_conn = TRUE
    /\ ret = Returned
    /\ before = {}
    /\ log = [key \in Keys |-> NoRecord]
    /\ ncalls = 1

OverFetchNext ==
    \E ns \in Namespaces, v \in Vectors, k \in TopKs, f \in FilterArgs :
        SqliteQuery(ns, v, k, f) /\ UNCHANGED <<log, aux>>

OverFetchSpec == OverFetchInit /\ [][OverFetchNext]_vars

---------------------------------------------------------------------------
(* QdrantVectorStore alone, one operation at a time *)

QdrantInit == Init /\ adapter = "qdrant"

QdrantNext ==
    \/ \E ns \in Namespaces, items \in Batches :
          QdrantUpsert(ns, items) /\ UNCHANGED <<log, aux>>
    \/ \E ns \in Namespaces, v \in Vectors, k \in TopKs, f \in FilterArgs :
          QdrantQuery(ns, v, k, f) /\ UNCHANGED <<log, aux>>
    \/ \E ns \in Namespaces, ids \in IdArgs, f \in FilterArgs :
          QdrantDelete(ns, ids, f) /\ UNCHANGED <<log, aux>>

QdrantSpec == QdrantInit /\ [][QdrantNext]_vars

----------------------------------------------------------------------------
(* SQLiteVectorStore with namespaces and ids that contain the separator of
   _make_key *)

KeyNamespaces == {"a", "a:b"}
KeyIds == {"c", "b:c"}
KeyItems == [id : KeyIds, vector : Vectors, metadata : {EmptyMap}]
KeyBatches == {<<i>> : i \in KeyItems}
KeyIdArgs == {[kind |-> "list", seq |-> <<i>>] : i \in KeyIds}

KeyInit == Init /\ adapter = "sqlite"

KeyNext ==
    \/ \E ns \in KeyNamespaces, items \in KeyBatches :
          SqliteUpsert(ns, items) /\ UNCHANGED <<log, aux>>
    \/ \E ns \in KeyNamespaces, ids \in KeyIdArgs :
          SqliteDelete(ns, ids, NoFilters) /\ UNCHANGED <<log, aux>>
    \/ \E ns \in KeyNamespaces :
          SqliteCount(ns) /\ UNCHANGED <<log, aux>>

KeySpec == KeyInit /\ [][KeyNext]_vars

----------------------------------------------------------------------------
(* SQLiteVectorStore: queries in flight next to upserts *)

\* _query without filters: the KNN SELECT and the loop over its rows, in the
\* worker thread of the call; the results are returned.
SqliteQuerySelect(c) ==
    LET f == flight[c]
        upserting == \E d \in DOMAIN flight \ {c} :
                        /\ flight[d].call.op = "upsert"
                        /\ flight[d].pc # "done"
                        /\ flight[d].call.namespace = f.call.namespace
    IN /\ adapter = "sqlite"
       /\ f.call.op = "query" /\ f.pc = "SELECT"
       /\ \E fetched \in SqliteKnn(sq_rows, f.call.namespace, f.call.vector,
                                   IF FiltersTruthy(f.call.filters)
                                     THEN f.call.top_k * OverFetch ELSE f.call.top_k) :
             LET g == [Made(f, "done", "SELECT") EXCEPT
                          !.ret = Ret("ok", SqliteResults(fetched, f.call.vector,
                                                          f.call.top_k, f.call.filters), 0),
                          !.raced = upserting]
             IN /\ flight' = [flight EXCEPT ![c] = g]
                /\ Finished(g, sq_rows)
       /\ UNCHANGED <<adapter, pg_rows, qd_exists, qd_points, sq_conn, sq_rows,
                      log, environ, pool, sq_db>>

\* what the callers call: upserts of one item, queries for every item of the
\* namespace
RaceTopK == 2
RaceCalls ==
    {UpsertCall(ns, items) : ns \in Namespaces, items \in {b \in FailBatches : Len(b) = 1}}
    \cup {QueryCall(ns, v, RaceTopK, NoFilters) : ns \in Namespaces, v \in FailVectors}

RaceInit == FailInit /\ adapter = "sqlite"

RaceNext ==
    \/ \E c \in Callers, op \in RaceCalls : SqliteBegin(c, op)
    \/ \E c \in DOMAIN flight : SqliteUpsertDelete(c)
    \/ \E c \in DOMAIN flight : SqliteUpsertInsert(c)
    \/ \E c \in DOMAIN flight : SqliteQuerySelect(c)

RaceSpec == RaceInit /\ [][RaceNext]_vars

----------------------------------------------------------------------------
(* SQLiteVectorStore.query on namespaces of one to four items *)

\* The store after one upsert of the first n of the four items in
\* namespace "A".
ExactInit ==
    /\ AuxInit
    /\ adapter = "sqlite"
    /\ \E batch \in FetchBatches, n \in 1..4 :
          LET items == SubSeq(batch, 1, n)
          IN /\ sq_rows = SqliteInsertAll({}, "A", items).rows
             /\ call = UpsertCall("A", items)
             /\ io = SqliteCalls(UpsertCall("A", items), FALSE, {})
    /\ pg_rows = {}
    /\ qd_exists = FALSE
    /\ qd_points = {}
    /\ sq_conn = TRUE
    /\ ret = Returned
    /\ before = {}
    /\ log = [key \in Keys |-> NoRecord]
    /\ ncalls = 1

ExactNext ==
    \E ns \in Namespaces, v \in Vectors, k \in TopKs, f \in FilterArgs :
        SqliteQuery(ns, v, k, f) /\ UNCHANGED <<log, aux>>

ExactSpec == ExactInit /\ [][ExactNext]_vars

----------------------------------------------------------------------------
(* SQLiteVectorStore: the first operations of a store, in flight together *)

\* Every operation calls _get_connection in its worker thread.  Nothing
\* keeps two threads apart inside it, so each read and each write of
\* self._conn and each engine call is a step of its own.

\* An engine connection: whether the loading of extensions is enabled on it,
\* whether sqlite-vec is loaded on it, and whether vec_items exists in its
\* database (every connection to ":memory:" has a database of its own).
Conn(enabled, loaded, table) == [enabled |-> enabled, loaded |-> loaded, table |-> table]

\* the database with the connections opened so far, in the order they were
\* opened; self._conn is the last of them
ConnDb(conns) ==
    [db_path |-> ":memory:", closes |-> 0, at_close |-> NoDb.at_close, conns |-> conns]

\* an operation in flight that holds connection conn (0: none yet)
ConnFlight(pc, c, r, calls, conn) ==
    [pc |-> pc, call |-> c, ret |-> r, io |-> calls,
     counted |-> 0, removed |-> 0, raced |-> FALSE, conn |-> conn]

\* the engine call of caller c is made on self._conn and leaves that
\* connection as `conn`
OnSelfConn(conn) ==
    sq_db' = [sq_db EXCEPT !.conns[Len(sq_db.conns)] = conn]

\* the engine call of caller c raises: the operation ends
ConnRaised(c, engine_call) ==
    LET g == [Made(flight[c], "done", engine_call) EXCEPT !.ret = EngineError]
    IN /\ flight' = [flight EXCEPT ![c] = g]
       /\ Finished(g, sq_rows)

\* A caller calls count.
SqliteConnBegin(c, op) ==
    /\ adapter = "sqlite"
    /\ c \notin DOMAIN flight
    /\ flight' = [d \in DOMAIN flight \cup {c} |->
                     IF d = c THEN ConnFlight("self._conn is None", op, Returned, <<>>, 0)
                     ELSE flight[d]]
    /\ UNCHANGED <<adapter, pg_rows, qd_exists, qd_points, sq_conn, sq_rows,
                   call, ret, io, before, log, ncalls, environ, pool, sq_db>>

\* _get_connection: if self._conn is None: ... / return self._conn
SqliteConnIsNone(c) ==
    LET f == flight[c]
    IN /\ adapter = "sqlite"
       /\ f.pc = "self._conn is None"
       /\ flight' = [flight EXCEPT ![c] =
                        IF sq_conn
                          THEN [f EXCEPT !.pc = "SELECT", !.conn = Len(sq_db.conns)]
                        ELSE [f EXCEPT !.pc = "Connection"]]
       /\ UNCHANGED <<adapter, pg_rows, qd_exists, qd_points, sq_conn, sq_rows,
                      call, ret, io, before, log, ncalls, environ, pool, sq_db>>

\* _get_connection: self._conn = apsw.Connection(self._db_path)
SqliteConnOpen(c) ==
    LET f == flight[c]
    IN /\ adapter = "sqlite"
       /\ f.pc = "Connection"
       /\ sq_db' = [sq_db EXCEPT !.conns = Append(@, Conn(FALSE, FALSE, FALSE))]
       /\ sq_conn' = TRUE
       /\ flight' = [flight EXCEPT ![c] = Made(f, "enableloadextension(True)", "Connection")]
       /\ UNCHANGED <<adapter, pg_rows, qd_exists, qd_points, sq_rows,
                      call, ret, io, before, log, ncalls, environ, pool>>

\* _get_connection: self._conn.enableloadextension(True)
SqliteConnEnable(c) ==
    LET f == flight[c]
        conn == sq_db.conns[Len(sq_db.conns)]
    IN /\ adapter = "sqlite"
       /\ f.pc = "enableloadextension(True)"
       /\ OnSelfConn([conn EXCEPT !.enabled = TRUE])
       /\ flight' = [flight EXCEPT ![c] = [f EXCEPT !.pc = "loadextension"]]
       /\ UNCHANGED <<adapter, pg_rows, qd_exists, qd_points, sq_conn, sq_rows,
                      call, ret, io, before, log, ncalls, environ, pool>>

\* _get_connection: self._conn.loadextension(sqlite_vec.loadable_path()); the
\* engine refuses while the loading of extensions is not enabled.
SqliteConnLoadExtension(c) ==
    LET f == flight[c]
        conn == sq_db.conns[Len(sq_db.conns)]
    IN /\ adapter = "sqlite"
       /\ f.pc = "loadextension"
       /\ IF conn.enabled
            THEN /\ OnSelfConn([conn EXCEPT !.loaded = TRUE])
                 /\ flight' = [flight EXCEPT ![c] =
                                  Made(f, "enableloadextension(False)", "loadextension")]
                 /\ UNCHANGED <<call, ret, io, before, ncalls>>
            ELSE /\ ConnRaised(c, "loadextension")
                 /\ UNCHANGED sq_db
       /\ UNCHANGED <<adapter, pg_rows, qd_exists, qd_points, sq_conn, sq_rows,
                      log, environ, pool>>

\* _get_connection: self._conn.enableloadextension(False)
SqliteConnDisable(c) ==
    LET f == flight[c]
        conn == sq_db.conns[Len(sq_db.conns)]
    IN /\ adapter = "sqlite"
       /\ f.pc = "enableloadextension(False)"
       /\ OnSelfConn([conn EXCEPT !.enabled = FALSE])
       /\ flight' = [flight EXCEPT ![c] = [f EXCEPT !.pc = "CREATE VIRTUAL TABLE"]]
       /\ UNCHANGED <<adapter, pg_rows, qd_exists, qd_points, sq_conn, sq_rows,
                      call, ret, io, before, log, ncalls, environ, pool>>

\* _initialize_schema: CREATE VIRTUAL TABLE IF NOT EXISTS vec_items USING
\* vec0(...) on self._conn, which needs sqlite-vec loaded on that connection;
\* then return self._conn
SqliteConnInitializeSchema(c) ==
    LET f == flight[c]
        conn == sq_db.conns[Len(sq_db.conns)]
    IN /\ adapter = "sqlite"
       /\ f.pc = "CREATE VIRTUAL TABLE"
       /\ IF conn.loaded
            THEN /\ OnSelfConn([conn EXCEPT !.table = TRUE])
                 /\ flight' = [flight EXCEPT ![c] =
                                  [Made(f, "SELECT", "CREATE VIRTUAL TABLE")
                                      EXCEPT !.conn = Len(sq_db.conns)]]
                 /\ UNCHANGED <<call, ret, io, before, ncalls>>
            ELSE /\ ConnRaised(c, "CREATE VIRTUAL TABLE")
                 /\ UNCHANGED sq_db
       /\ UNCHANGED <<adapter, pg_rows, qd_exists, qd_points, sq_conn, sq_rows,
                      log, environ, pool>>

\* _count: SELECT COUNT(*) FROM vec_items WHERE namespace = ? on the
\* connection _get_connection returned
SqliteConnSelect(c) ==
    LET f == flight[c]
        conn == sq_db.conns[f.conn]
    IN /\ adapter = "sqlite"
       /\ f.pc = "SELECT"
       /\ IF conn.table
            THEN LET g == [Made(f, "done", "SELECT") EXCEPT
                              !.ret = Ret("ok", <<>>,
                                          SqliteSelectCount(sq_rows, f.call.namespace))]
                 IN /\ flight' = [flight EXCEPT ![c] = g]
                    /\ Finished(g, sq_rows)
            ELSE ConnRaised(c, "SELECT")
       /\ UNCHANGED <<adapter, pg_rows, qd_exists, qd_points, sq_conn, sq_rows,
                      log, environ, pool, sq_db>>

\* A new store: no connection yet.
ConnInit ==
    /\ environ = NoEnviron
    /\ pool = NoPool
    /\ sq_db = ConnDb(<<>>)
    /\ flight = NoFlight
    /\ adapter = "sqlite"
    /\ pg_rows = {}
    /\ qd_exists = FALSE
    /\ qd_points = {}
    /\ sq_conn = FALSE
    /\ sq_rows = {}
    /\ call = Call("init", "A", <<>>, <<>>, 0, NoIds, NoFilters)
    /\ ret = Returned
    /\ io = <<>>
    /\ before = {}
    /\ log = [key \in Keys |-> NoRecord]
    /\ ncalls = 0

ConnNext ==
    \/ \E c \in Callers, ns \in Namespaces : SqliteConnBegin(c, CountCall(ns))
    \/ \E c \in DOMAIN flight : SqliteConnIsNone(c)
    \/ \E c \in DOMAIN flight : SqliteConnOpen(c)
    \/ \E c \in DOMAIN flight : SqliteConnEnable(c)
    \/ \E c \in DOMAIN flight : SqliteConnLoadExtension(c)
    \/ \E c \in DOMAIN flight : SqliteConnDisable(c)
    \/ \E c \in DOMAIN flight : SqliteConnInitializeSchema(c)
    \/ \E c \in DOMAIN flight : SqliteConnSelect(c)

ConnSpec == ConnInit /\ [][ConnNext]_vars

----------------------------------------------------------------------------
(* delete called with an empty list of ids or an empty dict of filters *)

EmptyIds == [kind |-> "list", seq |-> <<>>]
EmptyFilters == [given |-> TRUE, map |-> EmptyMap]

DeleteIdArgs == {i \in IdArgs : i.kind = "list"}
DeleteFilterArgs == {EmptyFilters} \cup {f \in FilterArgs : f.given}
OneItemBatches == {b \in Batches : Len(b) = 1}

EmptyInit == Init

EmptyNext ==
    \/ \E ns \in Namespaces, items \in OneItemBatches :
          PgUpsert(ns, items) /\ UNCHANGED <<log, aux>>
    \/ \E ns \in Namespaces, ids \in DeleteIdArgs, f \in DeleteFilterArgs :
          PgDelete(ns, ids, f) /\ UNCHANGED <<log, aux>>
    \/ \E ns \in Namespaces, items \in OneItemBatches :
          QdrantUpsert(ns, items) /\ UNCHANGED <<log, aux>>
    \/ \E ns \in Namespaces, ids \in DeleteIdArgs, f \in DeleteFilterArgs :
          QdrantDelete(ns, ids, f) /\ UNCHANGED <<log, aux>>
    \/ \E ns \in Namespaces, items \in OneItemBatches :
          SqliteUpsert(ns, items) /\ UNCHANGED <<log, aux>>
    \/ \E ns \in Namespaces, ids \in DeleteIdArgs, f \in DeleteFilterArgs :
          SqliteDelete(ns, ids, f) /\ UNCHANGED <<log, aux>>

EmptySpec == EmptyInit /\ [][EmptyNext]_vars

---------------------------------------------------------------------------
(* What the properties are stated about *)

\* the rows or points the adapter holds
Stored ==
    IF adapter = "pg" THEN pg_rows
    ELSE IF adapter = "qdrant" THEN qd_points
    ELSE sq_rows

\* the namespace argument of the upsert call that wrote a stored row or point
WrittenUnder(r) == IF adapter = "qdrant" THEN r.wns ELSE r.namespace

Item(ns, id, vector, metadata) ==
    [namespace |-> ns, id |-> id, vector |-> vector, metadata |-> metadata]

\* A stored row or point as the item the adapter takes it for: the namespace
\* it is stored under, its id, its vector and its metadata.
AsItem(r) ==
    IF adapter = "pg" THEN Item(r.namespace, r.id, r.embedding, r.metadata)
    ELSE IF adapter = "qdrant"
      THEN Item(r.payload["_namespace"].s, r.id, r.vector, StripNamespace(r.payload))
    ELSE Item(r.namespace, r.item_id, r.embedding, JsonLoads(r.metadata))

ItemsOf(rows) == {AsItem(r) : r \in rows}
ItemsIn(rows, ns) == {i \in ItemsOf(rows) : i.namespace = ns}

Succeeded(op) == call.op = op /\ ret.status = "ok"

---------------------------------------------------------------------------
(* Properties *)

\* C1: every result of a query on a namespace comes from an item that was
\* written under that namespace, never from one written under another.
C1_QueryNamespaceIsolation ==
    Succeeded("query") =>
        \A i \in DOMAIN ret.hits : ret.hits[i].wns = call.namespace

\* C2: a delete on a namespace leaves every item that was written under
\* another namespace stored and unchanged.
C2_DeleteNamespaceIsolation ==
    call.op = "delete" =>
        \A r \in before : WrittenUnder(r) # call.namespace => r \in Stored

\* C3: an upsert under a namespace leaves every item that was written under
\* another namespace stored and unchanged, whatever its id.
C3_UpsertKeyedByNamespaceAndId ==
    call.op = "upsert" =>
        \A r \in before : WrittenUnder(r) # call.namespace => r \in Stored

\* the rows or points the adapter keeps for the key (ns, id)
StoredFor(rows, ns, id) ==
    IF adapter = "pg" THEN {r \in rows : r.namespace = ns /\ r.id = id}
    ELSE IF adapter = "qdrant" THEN {r \in rows : r.id = id}
    ELSE {r \in rows : r.composite_id = MakeKey(ns, id)}

StoredVector(r) == IF adapter = "qdrant" THEN r.vector ELSE r.embedding

\* the metadata document kept with a row or point, and the keys of it that
\* are the adapter's own
StoredDocument(r) ==
    IF adapter = "pg" THEN r.metadata
    ELSE IF adapter = "qdrant" THEN r.payload
    ELSE JsonLoads(r.metadata)
ReservedKeys == IF adapter = "qdrant" THEN {"_namespace"} ELSE {}

\* a successful single-item upsert
UpsertedOne == Succeeded("upsert") /\ Len(call.items) = 1

\* the items a successful upsert has written: of the items of the batch with
\* one id, the last
UpsertedItems ==
    IF Succeeded("upsert")
      THEN {call.items[n] : n \in {n \in DOMAIN call.items :
               \A m \in DOMAIN call.items : m > n => call.items[m].id # call.items[n].id}}
      ELSE {}

\* an item was stored under the upsert's namespace and the id of item it when
\* the call was made
WasStored(it) == \E b \in ItemsIn(before, call.namespace) : b.id = it.id

NonIncreasing(hits) ==
    \A i, j \in DOMAIN hits : i < j => hits[i].score >= hits[j].score

\* C4: after an upsert of a (namespace, id) that was already stored, exactly
\* one item is stored under that (namespace, id), and it is the item of the
\* latest upsert: same vector, same metadata.
C4_IdempotentUpsert ==
    \A it \in UpsertedItems :
        WasStored(it) =>
            {i \in ItemsIn(Stored, call.namespace) : i.id = it.id}
              = {Item(call.namespace, it.id, it.vector, it.metadata)}

\* C5: an upsert of a (namespace, id) that was already stored replaces the
\* stored item and merges nothing: the stored vector is the new vector, every
\* key of the new metadata is stored with its new value, and no other key is
\* stored with the item apart from the adapter's own reserved key.
C5_UpsertReplacesNeverMerges ==
    \A new \in UpsertedItems :
        WasStored(new) =>
            LET kept == StoredFor(Stored, call.namespace, new.id)
            IN /\ Cardinality(kept) = 1
               /\ \A r \in kept :
                     /\ StoredVector(r) = new.vector
                     /\ \A k \in DOMAIN new.metadata :
                           /\ k \in DOMAIN StoredDocument(r)
                           /\ StoredDocument(r)[k] = new.metadata[k]
                     /\ DOMAIN StoredDocument(r)
                           \subseteq DOMAIN new.metadata \cup ReservedKeys

\* C5's case: an item with another vector and with a metadata key that the
\* new item does not have has been replaced.
C5_Witness ==
    \E new \in UpsertedItems :
        \E b \in ItemsIn(before, call.namespace) :
            /\ b.id = new.id
            /\ b.vector # new.vector
            /\ ~(DOMAIN b.metadata \subseteq DOMAIN new.metadata)

\* C6: a query that follows a successful upsert(namespace, [i]), on the same
\* namespace, with i's vector, no filters and top_k >= 1, returns a first
\* result with the maximum score 1.0, and its results in non-increasing
\* score order.
C6_ReadYourWrites ==
    [][(/\ UpsertedOne
        /\ call'.op = "query" /\ ncalls' = ncalls + 1
        /\ call'.namespace = call.namespace
        /\ call'.vector = call.items[1].vector
        /\ ~FiltersTruthy(call'.filters)
        /\ call'.top_k >= 1)
       => (/\ ret'.status = "ok"
           /\ ret'.hits # <<>>
           /\ ret'.hits[1].score = One
           /\ NonIncreasing(ret'.hits))]_vars

\* C7: a query returns at most top_k results, and without filters exactly
\* min(top_k, number of items stored in the namespace).
C7_QueryLength ==
    Succeeded("query") =>
        /\ Len(ret.hits) <= call.top_k
        /\ ~FiltersTruthy(call.filters) =>
              Len(ret.hits) = Min(call.top_k,
                                  Cardinality(ItemsIn(Stored, call.namespace)))

\* C7's case: top_k cuts the result short of the items of the namespace.
C7_Witness ==
    /\ Succeeded("query")
    /\ ~FiltersTruthy(call.filters)
    /\ Cardinality(ItemsIn(Stored, call.namespace)) > call.top_k
    /\ Len(ret.hits) = call.top_k

\* C8: the results of a query are in non-increasing score order.
C8_QueryOrder == Succeeded("query") => NonIncreasing(ret.hits)

\* C8's case: two results with different scores.
C8_Witness ==
    /\ Succeeded("query")
    /\ Len(ret.hits) = 2
    /\ ret.hits[1].score > ret.hits[2].score

\* C9: with filters, every result's metadata has every filter key with a
\* value equal to the filter's value, of the same type.
C9_FilterExactEquality ==
    (Succeeded("query") /\ FiltersTruthy(call.filters)) =>
        \A i \in DOMAIN ret.hits : \A k \in DOMAIN call.filters.map :
            /\ k \in DOMAIN ret.hits[i].metadata
            /\ ret.hits[i].metadata[k] = call.filters.map[k]

\* C10: the integer returned by delete is the number of items stored before
\* the call minus the number stored after it.
C10_DeleteCount ==
    Succeeded("delete") => ret.count = Cardinality(before) - Cardinality(Stored)

\* C11: after delete(namespace, ids=[x]) has returned, no query on that
\* namespace returns an item with id x until x is upserted into that
\* namespace again.  (log records the delete until such an upsert is called.)
C11_DeleteThenQuery ==
    Succeeded("query") =>
        \A i \in DOMAIN ret.hits :
            log[<<call.namespace, ret.hits[i].id>>].op # "delete"

\* metadata matches every filter key/value by exact equality
MatchesFilters(metadata, filters) ==
    \A k \in DOMAIN filters.map : PyGetEquals(metadata, k, filters.map[k])

\* C12: a delete given both ids and filters removes exactly the items that
\* are in the namespace, have their id in ids and have metadata matching
\* every filter; every other item stays stored.
C12_DeleteIdsAndFilters ==
    (Succeeded("delete") /\ IdsTruthy(call.ids) /\ FiltersTruthy(call.filters)) =>
        before \ Stored =
            {r \in before : /\ AsItem(r).namespace = call.namespace
                            /\ AsItem(r).id \in Range(call.ids.seq)
                            /\ MatchesFilters(AsItem(r).metadata, call.filters)}

\* C13: a delete called with neither ids nor filters raises ValueError, has
\* made no call to the backing engine, and leaves the stored items unchanged.
C13_DeleteValidation ==
    (call.op = "delete" /\ ~IdsTruthy(call.ids) /\ ~FiltersTruthy(call.filters)) =>
        /\ ret.status = "ValueError"
        /\ io = <<>>
        /\ Stored = before

\* C14: a query with top_k < 1 raises ValueError, and no call to the backing
\* engine (connection, collection check or creation, search) was made first.
C14_QueryValidation ==
    (call.op = "query" /\ call.top_k < 1) =>
        /\ ret.status = "ValueError"
        /\ io = <<>>

\* C15: an upsert of no items returns without error, has made no call to the
\* backing engine (so it has created no collection or table either), and
\* leaves the stored items unchanged.
C15_EmptyUpsertNoOp ==
    (call.op = "upsert" /\ call.items = <<>>) =>
        /\ ret.status = "ok"
        /\ io = <<>>
        /\ Stored = before

\* the stored vector a result of the last query comes from
HitVector(hit) ==
    StoredVector(CHOOSE r \in Stored :
                     AsItem(r).id = hit.id /\ WrittenUnder(r) = hit.wns)

\* the native cosine distance between a result's stored vector and the query
HitDistance(hit) == CosineDistance(HitVector(hit), call.vector)

\* the score adapter a reports for a stored vector and a query vector
ScoreBy(a, stored, query) ==
    IF a = "pg" THEN PgScore(CosineDistance(stored, query))
    ELSE IF a = "qdrant" THEN QdrantScore(CosineSimilarity(stored, query))
    ELSE SqliteScore(CosineDistance(stored, query))

\* C16: the score of a result is the score each of the three adapters
\* reports for the same stored vector and the same query vector.
C16_OneScoreConvention ==
    Succeeded("query") =>
        \A i \in DOMAIN ret.hits : \A a \in Adapters :
            ret.hits[i].score = ScoreBy(a, HitVector(ret.hits[i]), call.vector)

C18_MetadataRoundTrip ==
    Succeeded("query") =>
        \A i \in DOMAIN ret.hits :
            LET hit == ret.hits[i]
                last == log[<<hit.wns, hit.id>>]
            IN last.op = "upsert" => hit.metadata = last.metadata

\* C19: in the remote-service adapter no result of a query has the reserved
\* key "_namespace" in its metadata.
C19_NamespaceNeverExposed ==
    (adapter = "qdrant" /\ Succeeded("query")) =>
        \A i \in DOMAIN ret.hits : "_namespace" \notin DOMAIN ret.hits[i].metadata

\* C19's case: a query of the remote-service adapter returns a result from
\* a point whose payload holds the reserved key next to a key of the caller,
\* and the caller's key is returned.
C19_Witness ==
    /\ adapter = "qdrant" /\ Succeeded("query")
    /\ \E i \in DOMAIN ret.hits : \E p \in Stored :
          /\ p.id = ret.hits[i].id
          /\ {"_namespace", "type"} \subseteq DOMAIN p.payload
          /\ "type" \in DOMAIN ret.hits[i].metadata

\* the last call was a delete whose arguments match the stored row or point
\* r: r was written under the delete's namespace, its id is among the ids
\* (when given) and its metadata matches the filters (when given)
DeleteMatches(r) ==
    /\ call.op = "delete"
    /\ WrittenUnder(r) = call.namespace
    /\ IdsTruthy(call.ids) => AsItem(r).id \in Range(call.ids.seq)
    /\ FiltersTruthy(call.filters) => MatchesFilters(AsItem(r).metadata, call.filters)

\* the last call was an upsert with an item of r's (namespace, id)
UpsertOfSameKey(r) ==
    /\ call.op = "upsert"
    /\ WrittenUnder(r) = call.namespace
    /\ \E n \in DOMAIN call.items : call.items[n].id = AsItem(r).id

\* C20: query, count and get_by_ids leave the stored items as they were, and
\* an item stored when a call was made is still stored afterwards, with the
\* same vector and metadata, unless the call was a delete matching it or an
\* upsert of its (namespace, id).
C20_DestroyedOnlyByDelete ==
    /\ call.op \in {"query", "count", "get_by_ids"} => Stored = before
    /\ \A r \in before :
          r \notin Stored => DeleteMatches(r) \/ UpsertOfSameKey(r)

\* C21: the sizes of the relational adapter's connection pool are the
\* constructor's arguments, or the defaults 1 and 10 for an argument left
\* out, whatever the process environment holds; so two constructions with
\* the same arguments get the same sizes.
C21_PoolSizesFromArguments ==
    pool.status # "none" =>
        /\ pool.status = "open"
        /\ pool.min_size = IF pool.pool_min_size.given
                             THEN pool.pool_min_size.value ELSE DefaultPoolMinSize
        /\ pool.max_size = IF pool.pool_max_size.given
                             THEN pool.pool_max_size.value ELSE DefaultPoolMaxSize

\* C22: in the embedded adapter count(namespace) returns the number of
\* distinct ids stored in that namespace, whatever the other namespaces
\* hold, and 0 for a namespace in which nothing was ever written.
C22_CountIsDistinctIds ==
    (adapter = "sqlite" /\ Succeeded("count")) =>
        /\ ret.count = Cardinality({i.id : i \in ItemsIn(Stored, call.namespace)})
        /\ (\A id \in Ids : log[<<call.namespace, id>>].op = "none")
              => ret.count = 0

\* count returned 2 for a namespace while the other namespace held one item.
C22_Witness ==
    /\ adapter = "sqlite"
    /\ Succeeded("count")
    /\ ret.count = 2
    /\ \E ns \in Namespaces \ {call.namespace} :
          Cardinality(ItemsIn(Stored, ns)) = 1

IsPrefix(s, t) == Len(s) <= Len(t) /\ s = SubSeq(t, 1, Len(s))

\* the engine calls the last operation makes when none fails, the collection
\* existing or not when it was called
CallsOf(exists) ==
    IF adapter = "pg" THEN PgCalls(call)
    ELSE IF adapter = "qdrant" THEN QdrantCalls(call, exists)
    ELSE SqliteCalls(call, TRUE, before)

C27_UpsertFailureLosesItems ==
    (adapter = "sqlite" /\ call.op = "upsert" /\ ret.status = "EngineError"
        /\ Len(io) >= 2) =>
        LET done == Len(io) - 2
            ids == {call.items[i].id : i \in DOMAIN call.items}
        IN /\ \A i \in DOMAIN call.items :
                 IF i <= done
                   THEN Item(call.namespace, call.items[i].id, call.items[i].vector,
                             call.items[i].metadata) \in ItemsOf(Stored)
                 ELSE \A s \in ItemsIn(Stored, call.namespace) : s.id # call.items[i].id
           /\ {r \in Stored : ~(r.namespace = call.namespace /\ r.item_id \in ids)}
                 = {r \in before : ~(r.namespace = call.namespace /\ r.item_id \in ids)}

\* A batch of two failed at its second INSERT: the first item is stored and
\* the item that was stored under the second id is gone.
C27_Witness ==
    /\ adapter = "sqlite" /\ call.op = "upsert" /\ ret.status = "EngineError"
    /\ Len(call.items) = 2 /\ io = <<"DELETE", "INSERT", "INSERT">>
    /\ WasStored(call.items[2])
    /\ \A s \in ItemsIn(Stored, call.namespace) : s.id # call.items[2].id

ReturnedDelete(a, c) ==
    /\ adapter = a
    /\ c \in DOMAIN flight
    /\ flight[c].pc = "done"
    /\ flight[c].call.op = "delete"
    /\ flight[c].ret.status = "ok"

\* C25: the remote-service adapter's delete returns what its pre-count found;
\* that is the number of points its delete step removed whenever no other
\* call changed the points it matches between the two steps.  The witness
\* is the interleaving in which the two numbers differ.
C25_QdrantDeleteCountIsPreCount ==
    \A c \in Callers :
        ReturnedDelete("qdrant", c) =>
            /\ flight[c].ret.count = flight[c].counted
            /\ ~flight[c].raced => flight[c].counted = flight[c].removed

\* Another call's upsert or delete took effect between the pre-count and
\* the delete step, and the count returned is not the number removed.
C25_Witness ==
    \E c \in Callers :
        /\ ReturnedDelete("qdrant", c)
        /\ flight[c].raced
        /\ flight[c].ret.count # flight[c].removed

\* C26: in the embedded adapter a delete by ids only returns the number of
\* rows it removed, other operations being in flight or not.
C26_SqliteDeleteByIdsExact ==
    \A c \in Callers :
        ReturnedDelete("sqlite", c) =>
            /\ ~flight[c].raced
            /\ flight[c].ret.count = flight[c].removed

\* the items of the queried namespace, and those that match the filters
Queried == ItemsIn(Stored, call.namespace)
QueriedMatching == {i \in Queried : MatchesFilters(i.metadata, call.filters)}

\* the number of candidates the last query asked the engine for
FetchK == IF FiltersTruthy(call.filters) THEN call.top_k * OverFetch ELSE call.top_k

\* An item can be among the FetchK nearest: fewer than FetchK items are
\* nearer.  It is among them for sure: at most FetchK items are as near.
CanBeFetched(i) ==
    Cardinality({j \in Queried : CosineDistance(j.vector, call.vector)
                                    < CosineDistance(i.vector, call.vector)}) < FetchK
SurelyFetched(i) ==
    Cardinality({j \in Queried : CosineDistance(j.vector, call.vector)
                                    <= CosineDistance(i.vector, call.vector)}) <= FetchK

C30_LazyCollectionCreation ==
    adapter = "qdrant" =>
        IF ncalls = 0 THEN ~qd_exists /\ io = <<>>
        ELSE /\ qd_exists
             /\ io # <<>> /\ io[1] = "collection_exists"
             /\ \A n \in DOMAIN io :
                   io[n] = "create_collection" <=> (ncalls = 1 /\ n = 2)

\* The second operation, a query, found the collection and did not create it.
C30_Witness ==
    /\ adapter = "qdrant"
    /\ ncalls = 2
    /\ call.op = "query"
    /\ io = <<"collection_exists", "query_points">>

\* C31: in the embedded adapter the composite key of _make_key is unique per
\* (namespace, id): two different pairs never share a composite key, so an
\* upsert of one item returns without error and leaves alone every row
\* stored for another pair.
C31_CompositeKeyUnique ==
    (adapter = "sqlite" /\ call.op = "upsert" /\ Len(call.items) = 1) =>
        /\ \A r \in before :
              MakeKey(call.namespace, call.items[1].id) = r.composite_id
                  => (r.namespace = call.namespace /\ r.item_id = call.items[1].id)
        /\ ret = Returned
        /\ \A r \in before :
              (r.namespace # call.namespace \/ r.item_id # call.items[1].id)
                  => r \in sq_rows

\* C32: in the remote-service adapter the hidden namespace field of every
\* stored point equals the namespace argument of the upsert that wrote it,
\* whatever the item's metadata holds.
C32_HiddenNamespaceIsUpsertNamespace ==
    adapter = "qdrant" =>
        \A p \in qd_points : p.payload["_namespace"] = Txt(p.wns)

\* two callers' upserts have both returned or raised, and both wrote key
\* (ns, id)
BothUpserted(c, d, ns, id) ==
    /\ adapter = "sqlite"
    /\ {c, d} \subseteq DOMAIN flight /\ c # d
    /\ \A e \in {c, d} :
          /\ flight[e].pc = "done"
          /\ flight[e].call.op = "upsert"
          /\ flight[e].call.namespace = ns
          /\ \E i \in DOMAIN flight[e].call.items : flight[e].call.items[i].id = id

\* C34: in the embedded adapter two upserts of the same (namespace, id) made
\* by two callers on one store both return without error, and then exactly
\* one row is stored under the key, holding the item of one of the calls.
C34_ConcurrentUpsertsOfOneKey ==
    \A c, d \in Callers : \A ns \in Namespaces, id \in Ids :
        BothUpserted(c, d, ns, id) =>
            /\ flight[c].ret.status = "ok" /\ flight[d].ret.status = "ok"
            /\ \E r \in sq_rows :
                  /\ r.namespace = ns /\ r.item_id = id
                  /\ \A q \in sq_rows : (q.namespace = ns /\ q.item_id = id) => q = r
                  /\ \E e \in {c, d} : \E i \in DOMAIN flight[e].call.items :
                        AsItem(r) = Item(ns, id, flight[e].call.items[i].vector,
                                         flight[e].call.items[i].metadata)

\* C33: in the embedded adapter a query made while an upsert replaces a
\* stored (namespace, id) returns that item, in its old or its new version:
\* when the upsert found the item stored, a query on its namespace that asks
\* for every item returns a result with the item's id.
C33_QueryNeverSeesItemAbsent ==
    \A c, d \in Callers :
        ( /\ adapter = "sqlite"
          /\ {c, d} \subseteq DOMAIN flight
          /\ flight[c].call.op = "query" /\ flight[c].pc = "done"
          /\ flight[c].raced
          /\ flight[d].call.op = "upsert"
          /\ flight[d].call.namespace = flight[c].call.namespace
          /\ IF flight[d].pc = "DELETE"
               THEN \E r \in sq_rows :
                       /\ r.namespace = flight[d].call.namespace
                       /\ r.item_id = flight[d].call.items[1].id
             ELSE flight[d].removed > 0 )
        => \E i \in DOMAIN flight[c].ret.hits :
              flight[c].ret.hits[i].id = flight[d].call.items[1].id

\* the score the embedded adapter gives item i for the last query's vector
QueriedScore(i) == ScoreBy("sqlite", i.vector, call.vector)

Creators ==
    {c \in DOMAIN flight :
        \E n \in DOMAIN flight[c].io : flight[c].io[n] = "create_collection"}

\* C36: in the remote-service adapter, operations started together on a
\* store whose collection does not exist call create_collection at most
\* once between them, and none of them fails.
C36_CreateIfAbsentOnce ==
    adapter = "qdrant" =>
        /\ Cardinality(Creators) <= 1
        /\ \A c \in DOMAIN flight : flight[c].ret.status = "ok"

\* C37: in the embedded adapter, from construction on, at most one engine
\* connection is opened for the store, and every operation runs its
\* statement on a connection whose vec_items table exists, so no operation
\* fails, also when the first operations are in flight together.
C37_LazyConnectionOnce ==
    adapter = "sqlite" =>
        /\ Len(sq_db.conns) <= 1
        /\ \A c \in DOMAIN flight :
              /\ flight[c].ret.status = "ok"
              /\ flight[c].pc = "done" => sq_db.conns[flight[c].conn].table

\* the ids that occur more than once in the items of the last call
RepeatedIds ==
    {call.items[i].id : i \in {i \in DOMAIN call.items :
                                  \E j \in DOMAIN call.items :
                                      j # i /\ call.items[j].id = call.items[i].id}}

\* the last item of the last call's batch with the given id
LastOccurrence(id) ==
    call.items[CHOOSE i \in DOMAIN call.items :
                   /\ call.items[i].id = id
                   /\ \A j \in DOMAIN call.items : call.items[j].id = id => j <= i]

\* C38: in every adapter an upsert whose items hold one id more than once
\* returns without error and leaves exactly one item stored for that
\* (namespace, id), with the vector and the metadata of the last occurrence.
C38_RepeatedIdLastWins ==
    call.op = "upsert" =>
        \A id \in RepeatedIds :
            /\ ret = Returned
            /\ {i \in ItemsIn(Stored, call.namespace) : i.id = id}
                 = {Item(call.namespace, id, LastOccurrence(id).vector,
                         LastOccurrence(id).metadata)}

\* the rows or points the last call removed
Removed == before \ Stored

\* C39: in all three adapters an empty list of ids or an empty dict of
\* filters counts as not given: a delete with an empty list of ids and
\* filters removes exactly the items written under the namespace whose
\* metadata matches every filter; a delete with ids and an empty dict of
\* filters removes exactly the items written under the namespace whose id is
\* among the ids; a delete with both empty raises ValueError and removes
\* nothing.
C39_EmptyMeansNotSupplied ==
    (call.op = "delete" /\ call.ids.kind = "list" /\ call.filters.given) =>
        /\ Stored \subseteq before
        /\ (call.ids = EmptyIds /\ call.filters # EmptyFilters) =>
              /\ ret.status = "ok"
              /\ Removed = {r \in before :
                               /\ WrittenUnder(r) = call.namespace
                               /\ MatchesFilters(AsItem(r).metadata, call.filters)}
        /\ (call.ids # EmptyIds /\ call.filters = EmptyFilters) =>
              /\ ret.status = "ok"
              /\ Removed = {r \in before :
                               /\ WrittenUnder(r) = call.namespace
                               /\ AsItem(r).id \in Range(call.ids.seq)}
        /\ (call.ids = EmptyIds /\ call.filters = EmptyFilters) =>
              /\ ret = ValueError
              /\ Removed = {}

====
